---- MODULE Spec2Model ----
(***************************************************************************)
(* Model of the Kafka dashboard: the report loader and aggregators         *)
(* (src/dashboard/utils/data_loader.py), the chart builders                *)
(* (src/dashboard/components/charts.py), the callbacks of the application *)
(* (src/dashboard/app.py) and the launchers                                *)
(* (src/dashboard/run_dashboard.py, src/dashboard/start_monitoring.py).    *)
(*                                                                         *)
(* Python values are represented as follows.                               *)
(*   dict          a function with a domain of strings (a record); a key   *)
(*                 that is absent from the dict is absent from the DOMAIN  *)
(*   list          a sequence                                              *)
(*   {} and []     both are the empty function <<>>                        *)
(*   None          the record NONE                                         *)
(*   float         an exact rational [num, den] in lowest terms            *)
(*                 (get_health_score), or an integer number of hundredths  *)
(*                 (the value of round(x, 2))                              *)
(*   exception     an outcome record with raised = TRUE                    *)
(***************************************************************************)
EXTENDS Integers, Sequences, FiniteSets, TLC

VARIABLES
    dirExists,   \* os.path.exists(self.data_dir)
    entries,     \* the directory's entries, in the order the OS lists them
    data,        \* the report handed to an aggregator
    call,        \* the last call made: function, returned value, diagnostics
    runs,        \* the executions of update_data on the server, by slot
    page,        \* the page in the browser: its stores and its main content
    proc         \* the launcher process: its position, what it has observed

vars == <<dirExists, entries, data, call, runs, page, proc>>

(***************************************************************************)
(* Bounds                                                                  *)
(***************************************************************************)
MaxFiles == 3      \* entries in the data directory
MaxMtime == 3      \* distinct modification times
MaxToken == 3      \* distinct <token> parts of kafka-analysis-<token>.json
MaxTopics == 3     \* topics in a report
MaxGroups == 3     \* consumer groups in a report
MaxCount == 3      \* greatest totalChecks / passedChecks in a report
MaxChecks == 2     \* entries of healthChecks.checks
MaxBrokers == 2    \* brokers in clusterInfo

(***************************************************************************)
(* Generic helpers                                                         *)
(***************************************************************************)
NONE == [None |-> TRUE]

\* dict.get(key, default)
Get(d, k, default) == IF k \in DOMAIN d THEN d[k] ELSE default

\* "key in dict"
Has(d, k) == k \in DOMAIN d

\* Python truthiness of a dict / list / None argument ("if not data")
Truthy(v) == v # NONE /\ DOMAIN v # {}

Range(s) == {s[i] : i \in DOMAIN s}

\* sequences over S of length at most n
SeqUpTo(S, n) == UNION {[1..k -> S] : k \in 0..n}

(***************************************************************************)
(* The data directory                                                      *)
(***************************************************************************)
DataDir == "../kafka-analysis"

\* a file name, split where the pattern kafka-analysis-*.json splits it
FileNames ==
    {[stem |-> "kafka-analysis-", tok |-> t, ext |-> ".json"] : t \in 1..MaxToken}
    \cup {[stem |-> "kafka-analysis-", tok |-> 1, ext |-> ".txt"],
          [stem |-> "kafka-report-",   tok |-> 1, ext |-> ".json"]}

\* fnmatch(name, "kafka-analysis-*.json")
Matches(name) == name.stem = "kafka-analysis-" /\ name.ext = ".json"

\* rank of a name in alphabetical order: the stem, then the token, then the
\* extension
NameKey(n) ==
    (IF n.stem = "kafka-analysis-" THEN 0 ELSE 2 * (MaxToken + 1))
    + 2 * n.tok + (IF n.ext = ".json" THEN 0 ELSE 1)

\* alphabetical order of two names
NameBefore(a, b) == NameKey(a) < NameKey(b)

\* the order in which the OS lists the names S: not specified by glob; the
\* directories considered list them by ascending or by descending name
RECURSIVE Listing(_, _)
Listing(S, ascending) ==
    IF S = {} THEN <<>>
    ELSE LET first == CHOOSE x \in S : \A y \in S \ {x} :
                          IF ascending THEN NameBefore(x, y) ELSE NameBefore(y, x)
         IN  <<first>> \o Listing(S \ {first}, ascending)

\* what a report file can hold: a JSON object, text that is not JSON, or
\* JSON whose root is not an object
FileBodies == {[timestamp |-> 1], [timestamp |-> 2, vendor |-> "v"]}
FileContents ==
    {[kind |-> "object", body |-> b] : b \in FileBodies}
    \cup {[kind |-> "corrupt", body |-> <<>>], [kind |-> "nondict", body |-> <<>>]}

DirEntry(n, m, c) == [name |-> n, mtime |-> m, kind |-> c.kind, body |-> c.body]

\* a file the pattern does not match is never opened: its content is fixed to
\* the newest parsable one
OtherContent == [kind |-> "object", body |-> [timestamp |-> 1]]

(***************************************************************************)
(* KafkaDataLoader.get_latest_report / get_all_reports                     *)
(***************************************************************************)
\* os.path.join(self.data_dir, name)
FilePath(name) == [dir |-> DataDir, base |-> name]

\* os.path.basename(path)
Basename(path) == path.base

\* datetime.fromtimestamp(mtime).isoformat()
IsoFormat(mtime) == [iso |-> mtime]

\* variant of Glob: the pattern is not applied
Glob_All(es) == es

\* glob.glob(pattern): the matching entries, in directory order
Glob(es) == SelectSeq(es, LAMBDA e : Matches(e.name))

\* variant of MaxByMtime: max(json_files) without the key, the greatest name
MaxByMtime_ByName(files) ==
    CHOOSE f \in Range(files) : \A g \in Range(files) : ~NameBefore(f.name, g.name)

\* variant of MaxByMtime: of the entries of greatest mtime the last one
MaxByMtime_LastMax(files) ==
    LET best == CHOOSE i \in DOMAIN files :
                    /\ \A j \in DOMAIN files : files[j].mtime <= files[i].mtime
                    /\ \A j \in (i + 1)..Len(files) : files[j].mtime < files[i].mtime
    IN  files[best]

\* max(json_files, key=os.path.getmtime): the first entry of greatest mtime
MaxByMtime(files) ==
    LET best == CHOOSE i \in DOMAIN files :
                    /\ \A j \in DOMAIN files : files[j].mtime <= files[i].mtime
                    /\ \A j \in 1..(i - 1) : files[j].mtime < files[i].mtime
    IN  files[best]

\* variant of SortedByMtime: sorted(..., reverse=True), the newest file first
RECURSIVE SortedByMtime_Descending(_)
SortedByMtime_Descending(files) ==
    IF files = <<>> THEN <<>>
    ELSE LET n      == Len(files)
             prefix == SortedByMtime_Descending(SubSeq(files, 1, n - 1))
             x      == files[n]
             k      == Cardinality({i \in DOMAIN prefix : prefix[i].mtime >= x.mtime})
         IN  SubSeq(prefix, 1, k) \o <<x>> \o SubSeq(prefix, k + 1, Len(prefix))

\* sorted(json_files, key=os.path.getmtime): stable insertion into a sorted prefix
RECURSIVE SortedByMtime(_)
SortedByMtime(files) ==
    IF files = <<>> THEN <<>>
    ELSE LET n      == Len(files)
             prefix == SortedByMtime(SubSeq(files, 1, n - 1))
             x      == files[n]
             k      == Cardinality({i \in DOMAIN prefix : prefix[i].mtime <= x.mtime})
         IN  SubSeq(prefix, 1, k) \o <<x>> \o SubSeq(prefix, k + 1, Len(prefix))

Returned(v) == [raised |-> FALSE, val |-> v, exc |-> "none"]
Raised(e)   == [raised |-> TRUE, val |-> NONE, exc |-> e]

\* variant of LoadFile: the metadata's filename holds the whole path
LoadFile_PathAsName(e) ==
    IF e.kind = "corrupt" THEN Raised("JSONDecodeError")
    ELSE IF e.kind = "nondict" THEN Raised("TypeError")
    ELSE Returned(e.body @@
            [_metadata |-> [filename      |-> FilePath(e.name),
                            filepath      |-> FilePath(e.name),
                            last_modified |-> IsoFormat(e.mtime)]])

\* open(file), json.load(f), data['_metadata'] = {...}
LoadFile(e) ==
    IF e.kind = "corrupt" THEN Raised("JSONDecodeError")
    ELSE IF e.kind = "nondict" THEN Raised("TypeError")
    ELSE Returned(e.body @@
            [_metadata |-> [filename      |-> Basename(FilePath(e.name)),
                            filepath      |-> FilePath(e.name),
                            last_modified |-> IsoFormat(e.mtime)]])

\* variant of LatestBody: falls back to the newest file that parses
LatestBody_Fallback(exists, es) ==
    IF ~exists THEN Returned(NONE)
    ELSE LET json_files == Glob(es)
             parsable   == SelectSeq(json_files, LAMBDA e : e.kind = "object")
         IN  IF json_files = <<>> THEN Returned(NONE)
             ELSE IF parsable = <<>> THEN LoadFile(MaxByMtime(json_files))
             ELSE LoadFile(MaxByMtime(parsable))

\* the body of the try block of get_latest_report
LatestBody(exists, es) ==
    IF ~exists THEN Returned(NONE)
    ELSE LET json_files == Glob(es)
         IN  IF json_files = <<>> THEN Returned(NONE)
             ELSE LoadFile(MaxByMtime(json_files))

\* variant of get_latest_report: no except clause, the exception propagates
get_latest_report_NoCatch(exists, es) ==
    LET out == LatestBody(exists, es)
    IN  [fn |-> "get_latest_report", raised |-> out.raised, ret |-> out.val,
         log |-> <<>>]

\* try: ... except Exception as e: print(...); return None
get_latest_report(exists, es) ==
    LET out == LatestBody(exists, es)
    IN  IF out.raised
        THEN [fn |-> "get_latest_report", raised |-> FALSE, ret |-> NONE,
              log |-> <<[msg |-> "Error loading report", exc |-> out.exc]>>]
        ELSE [fn |-> "get_latest_report", raised |-> FALSE, ret |-> out.val,
              log |-> <<>>]

\* variant of LoadEach: the first file that fails ends the loop
RECURSIVE LoadEach_Abort(_)
LoadEach_Abort(files) ==
    IF files = <<>> THEN [reports |-> <<>>, log |-> <<>>]
    ELSE LET out == LoadFile(files[1])
         IN  IF out.raised
             THEN [reports |-> <<>>,
                   log |-> <<[msg |-> "Error loading", file |-> FilePath(files[1].name),
                              exc |-> out.exc]>>]
             ELSE LET rest == LoadEach_Abort(Tail(files))
                  IN  [reports |-> <<out.val>> \o rest.reports, log |-> rest.log]

\* the for loop of get_all_reports over the sorted files: the inner
\* try/except appends the report or prints a diagnostic and continues
RECURSIVE LoadEach(_)
LoadEach(files) ==
    IF files = <<>> THEN [reports |-> <<>>, log |-> <<>>]
    ELSE LET n    == Len(files)
             rest == LoadEach(SubSeq(files, 1, n - 1))
             out  == LoadFile(files[n])
         IN  IF out.raised
             THEN [reports |-> rest.reports,
                   log |-> Append(rest.log,
                              [msg |-> "Error loading", file |-> FilePath(files[n].name),
                               exc |-> out.exc])]
             ELSE [reports |-> Append(rest.reports, out.val), log |-> rest.log]

\* try: ... except Exception: print(...); return []. On a directory that does
\* not change during the call nothing outside the loop's own try can raise,
\* so only the inner handler (LoadEach) acts.
get_all_reports(exists, es) ==
    IF ~exists
    THEN [fn |-> "get_all_reports", raised |-> FALSE, ret |-> <<>>, log |-> <<>>]
    ELSE LET loaded == LoadEach(SortedByMtime(Glob(es)))
         IN  [fn |-> "get_all_reports", raised |-> FALSE,
              ret |-> loaded.reports, log |-> loaded.log]

(***************************************************************************)
(* KafkaDataLoader aggregators                                             *)
(***************************************************************************)
RECURSIVE GCD(_, _)
GCD(a, b) == IF b = 0 THEN a ELSE GCD(b, a % b)

\* the float n / d (d > 0, n >= 0), as a fraction in lowest terms
Rat(n, d) == LET g == GCD(n, d) IN [num |-> n \div g, den |-> d \div g]

\* the float 0.0
Zero == [num |-> 0, den |-> 1]

\* round(n / d, 2) in hundredths (d > 0, n >= 0); a tie rounds to even (a tie
\* needs d to be a multiple of 8, beyond the lists considered here)
Round2(n, d) ==
    LET q == (n * 100) \div d
        r == (n * 100) % d
    IN  IF 2 * r < d THEN q
        ELSE IF 2 * r > d THEN q + 1
        ELSE IF q % 2 = 0 THEN q ELSE q + 1

\* sum(s) of a sequence of integers
RECURSIVE Sum(_)
Sum(s) == IF s = <<>> THEN 0 ELSE Sum(SubSeq(s, 1, Len(s) - 1)) + s[Len(s)]

\* variant of get_health_score: the checks that did not fail count as passed
get_health_score_FromFailed(d) ==
    IF ~Truthy(d) \/ ~Has(d, "healthChecks") THEN Zero
    ELSE LET health_checks == d.healthChecks
             total_checks  == Get(health_checks, "totalChecks", 0)
             failed_checks == Get(health_checks, "failedChecks", 0)
         IN  IF total_checks > 0 /\ failed_checks <= total_checks
             THEN Rat((total_checks - failed_checks) * 100, total_checks)
             ELSE Zero

\* variant of get_health_score: warnings are counted as passed checks
get_health_score_WithWarnings(d) ==
    IF ~Truthy(d) \/ ~Has(d, "healthChecks") THEN Zero
    ELSE LET health_checks == d.healthChecks
             total_checks  == Get(health_checks, "totalChecks", 0)
             passed_checks == Get(health_checks, "passedChecks", 0)
                              + Get(health_checks, "warnings", 0)
         IN  IF total_checks > 0 THEN Rat(passed_checks * 100, total_checks)
             ELSE Zero

get_health_score(d) ==
    IF ~Truthy(d) \/ ~Has(d, "healthChecks") THEN Zero
    ELSE LET health_checks == d.healthChecks
             total_checks  == Get(health_checks, "totalChecks", 0)
             passed_checks == Get(health_checks, "passedChecks", 0)
         IN  IF total_checks > 0 THEN Rat(passed_checks * 100, total_checks)
             ELSE Zero

\* variant of get_topics_summary: the average is taken over the user topics
get_topics_summary_UserAvg(d) ==
    IF ~Truthy(d) THEN <<>>
    ELSE LET topics           == Get(d, "topics", <<>>)
             user_topics      == SelectSeq(topics, LAMBDA t : ~Get(t, "isInternal", FALSE))
             internal_topics  == SelectSeq(topics, LAMBDA t : Get(t, "isInternal", FALSE))
             total_partitions == Sum([i \in DOMAIN topics |->
                                         Get(topics[i], "partitions", 0)])
         IN  [total_topics             |-> Len(topics),
              user_topics              |-> Len(user_topics),
              internal_topics          |-> Len(internal_topics),
              total_partitions         |-> total_partitions,
              avg_partitions_per_topic |->
                  IF user_topics # <<>> THEN Round2(total_partitions, Len(user_topics))
                  ELSE 0,
              topics_with_errors       |->
                  Cardinality({i \in DOMAIN topics :
                                   Get(topics[i], "errorCode", 0) # 0})]

get_topics_summary(d) ==
    IF ~Truthy(d) THEN <<>>
    ELSE LET topics           == Get(d, "topics", <<>>)
             user_topics      == SelectSeq(topics, LAMBDA t : ~Get(t, "isInternal", FALSE))
             internal_topics  == SelectSeq(topics, LAMBDA t : Get(t, "isInternal", FALSE))
             total_partitions == Sum([i \in DOMAIN topics |->
                                         Get(topics[i], "partitions", 0)])
         IN  [total_topics             |-> Len(topics),
              user_topics              |-> Len(user_topics),
              internal_topics          |-> Len(internal_topics),
              total_partitions         |-> total_partitions,
              avg_partitions_per_topic |->
                  IF topics # <<>> THEN Round2(total_partitions, Len(topics)) ELSE 0,
              topics_with_errors       |->
                  Cardinality({i \in DOMAIN topics :
                                   Get(topics[i], "errorCode", 0) # 0})]

\* variant of get_broker_info: an absent clusterInfo is read as an empty one
get_broker_info_Defaulting(d) ==
    IF ~Truthy(d) THEN <<>>
    ELSE LET cluster_info == Get(d, "clusterInfo", <<>>)
             brokers      == Get(cluster_info, "brokers", <<>>)
         IN  [total_brokers |-> Len(brokers),
              cluster_id    |-> Get(cluster_info, "clusterId", "Unknown"),
              controller    |-> Get(cluster_info, "controller", "Unknown"),
              brokers       |-> brokers]

\* variant of get_broker_info: cluster_id and controller are read from each
\* other's field
get_broker_info_Swapped(d) ==
    IF ~Truthy(d) \/ ~Has(d, "clusterInfo") THEN <<>>
    ELSE LET cluster_info == d.clusterInfo
             brokers      == Get(cluster_info, "brokers", <<>>)
         IN  [total_brokers |-> Len(brokers),
              cluster_id    |-> Get(cluster_info, "controller", "Unknown"),
              controller    |-> Get(cluster_info, "clusterId", "Unknown"),
              brokers       |-> brokers]

get_broker_info(d) ==
    IF ~Truthy(d) \/ ~Has(d, "clusterInfo") THEN <<>>
    ELSE LET cluster_info == d.clusterInfo
             brokers      == Get(cluster_info, "brokers", <<>>)
         IN  [total_brokers |-> Len(brokers),
              cluster_id    |-> Get(cluster_info, "clusterId", "Unknown"),
              controller    |-> Get(cluster_info, "controller", "Unknown"),
              brokers       |-> brokers]

\* variant of get_consumer_groups_summary: a group that reports a members
\* count is active, whatever the count
get_consumer_groups_summary_AnyMembers(d) ==
    IF ~Truthy(d) \/ ~Has(d, "consumerGroups") THEN <<>>
    ELSE LET consumer_groups == d.consumerGroups
             active_groups   == Cardinality({i \in DOMAIN consumer_groups :
                                   Has(consumer_groups[i], "members")})
             inactive_groups == Len(consumer_groups) - active_groups
         IN  [total_groups    |-> Len(consumer_groups),
              active_groups   |-> active_groups,
              inactive_groups |-> inactive_groups,
              groups          |-> consumer_groups]

get_consumer_groups_summary(d) ==
    IF ~Truthy(d) \/ ~Has(d, "consumerGroups") THEN <<>>
    ELSE LET consumer_groups == d.consumerGroups
             active_groups   == Cardinality({i \in DOMAIN consumer_groups :
                                   Get(consumer_groups[i], "members", 0) > 0})
             inactive_groups == Len(consumer_groups) - active_groups
         IN  [total_groups    |-> Len(consumer_groups),
              active_groups   |-> active_groups,
              inactive_groups |-> inactive_groups,
              groups          |-> consumer_groups]

\* f"Health Check {i+1}"
CheckName(n) == [text |-> "Health Check ", number |-> n]

\* variant of extract_health_checks_details: the name carries the zero-based
\* position, f"Health Check {i}"
extract_health_checks_details_ZeroBasedName(d) ==
    IF ~Truthy(d) \/ ~Has(d, "healthChecks") THEN <<>>
    ELSE LET checks == Get(d.healthChecks, "checks", <<>>)
         IN  [k \in 1..Len(checks) |->
                 [id             |-> k - 1,
                  name           |-> CheckName(k - 1),
                  status         |-> "PASSED",
                  message        |-> Get(checks[k], "description",
                                         "No description available"),
                  recommendation |-> Get(checks[k], "recommendation",
                                         "No recommendation")]]

\* variant of extract_health_checks_details: the status is the one the check
\* carries, check.get('status', 'UNKNOWN')
extract_health_checks_details_OwnStatus(d) ==
    IF ~Truthy(d) \/ ~Has(d, "healthChecks") THEN <<>>
    ELSE LET checks == Get(d.healthChecks, "checks", <<>>)
         IN  [k \in 1..Len(checks) |->
                 [id             |-> k - 1,
                  name           |-> CheckName(k),
                  status         |-> Get(checks[k], "status", "UNKNOWN"),
                  message        |-> Get(checks[k], "description",
                                         "No description available"),
                  recommendation |-> Get(checks[k], "recommendation",
                                         "No recommendation")]]

extract_health_checks_details(d) ==
    IF ~Truthy(d) \/ ~Has(d, "healthChecks") THEN <<>>
    ELSE LET checks == Get(d.healthChecks, "checks", <<>>)
         IN  [k \in 1..Len(checks) |->
                 [id             |-> k - 1,
                  name           |-> CheckName(k),
                  status         |-> "PASSED",
                  message        |-> Get(checks[k], "description",
                                         "No description available"),
                  recommendation |-> Get(checks[k], "recommendation",
                                         "No recommendation")]]

(***************************************************************************)
(* The aggregators as calls: the value returned, or the exception raised.  *)
(* A subscript d[k] raises KeyError on an absent key, d.get(k, default)    *)
(* never raises.                                                           *)
(***************************************************************************)
Subscript(d, k) == IF Has(d, k) THEN Returned(d[k]) ELSE Raised("KeyError")

\* get_health_score: data['healthChecks'] is evaluated once the test
\* "if not data or 'healthChecks' not in data" has let the call through
get_health_score_call(d) ==
    LET subscripted == Truthy(d) /\ Has(d, "healthChecks")
    IN  IF subscripted /\ Subscript(d, "healthChecks").raised
        THEN Raised("KeyError")
        ELSE Returned(get_health_score(d))

\* get_topics_summary reads every key with .get
get_topics_summary_call(d) == Returned(get_topics_summary(d))

\* get_broker_info: data['clusterInfo'] is evaluated once the test
\* "if not data or 'clusterInfo' not in data" has let the call through
get_broker_info_call(d) ==
    LET subscripted == Truthy(d) /\ Has(d, "clusterInfo")
    IN  IF subscripted /\ Subscript(d, "clusterInfo").raised
        THEN Raised("KeyError")
        ELSE Returned(get_broker_info(d))

\* get_consumer_groups_summary: data['consumerGroups'] is evaluated once the
\* test "if not data or 'consumerGroups' not in data" has let the call through
get_consumer_groups_summary_call(d) ==
    LET subscripted == Truthy(d) /\ Has(d, "consumerGroups")
    IN  IF subscripted /\ Subscript(d, "consumerGroups").raised
        THEN Raised("KeyError")
        ELSE Returned(get_consumer_groups_summary(d))

\* variant of extract_health_checks_details_call: the test before the
\* subscript data['healthChecks'] is "if not data" alone
extract_health_checks_details_call_Unguarded(d) ==
    LET subscripted == Truthy(d)
    IN  IF subscripted /\ Subscript(d, "healthChecks").raised
        THEN Raised("KeyError")
        ELSE Returned(extract_health_checks_details(d))

\* extract_health_checks_details: data['healthChecks'] is evaluated once the
\* test "if not data or 'healthChecks' not in data" has let the call through
extract_health_checks_details_call(d) ==
    LET subscripted == Truthy(d) /\ Has(d, "healthChecks")
    IN  IF subscripted /\ Subscript(d, "healthChecks").raised
        THEN Raised("KeyError")
        ELSE Returned(extract_health_checks_details(d))

(***************************************************************************)
(* Specification of the loader over a fixed directory                      *)
(***************************************************************************)
Idle == [fn |-> "idle", raised |-> FALSE, ret |-> NONE, log |-> <<>>]

\* no dashboard is running: no execution of update_data, no page
NoDashboard == runs = <<>> /\ page = NONE

\* no launcher is modelled: the loader and the dashboard are used directly
NoLauncher == proc = NONE

\* the listings of every set of at most MaxFiles names
Listings ==
    {Listing(S, ascending) :
        S \in {T \in SUBSET FileNames : Cardinality(T) <= MaxFiles},
        ascending \in BOOLEAN}

InitLoader ==
    /\ dirExists \in BOOLEAN
    /\ \E ns \in Listings :
       \E ms \in [1..Len(ns) -> 1..MaxMtime] :
       \E cs \in [1..Len(ns) -> FileContents] :
          /\ dirExists \/ ns = <<>>
          /\ \A i \in 1..Len(ns) :
                Matches(ns[i]) \/ (ms[i] = MaxMtime /\ cs[i] = OtherContent)
          /\ entries = [i \in 1..Len(ns) |-> DirEntry(ns[i], ms[i], cs[i])]
    /\ data = NONE
    /\ call = Idle
    /\ NoDashboard
    /\ NoLauncher

GetLatestReport ==
    /\ call' = get_latest_report(dirExists, entries)
    /\ UNCHANGED <<dirExists, entries, data, runs, page, proc>>

GetAllReports ==
    /\ call' = get_all_reports(dirExists, entries)
    /\ UNCHANGED <<dirExists, entries, data, runs, page, proc>>

NextLoader == GetLatestReport \/ GetAllReports

SpecLoader == InitLoader /\ [][NextLoader]_vars

(***************************************************************************)
(* Properties of the loader (checked under SpecLoader)                     *)
(***************************************************************************)
\* positions of the directory entries the pattern matches
MatchingIdx == {i \in DOMAIN entries : Matches(entries[i].name)}

\* positions of the matching entries that hold a JSON object
ParsableIdx == {i \in MatchingIdx : entries[i].kind = "object"}

\* positions of the matching entries of greatest modification time
NewestIdx == {i \in MatchingIdx : \A j \in MatchingIdx : entries[j].mtime <= entries[i].mtime}

\* r is the report parsed from entry e: the object of the file plus its metadata
IsReportOf(r, e) ==
    /\ Has(r, "_metadata")
    /\ DOMAIN r = DOMAIN e.body \cup {"_metadata"}
    /\ \A k \in DOMAIN e.body : r[k] = e.body[k]
    /\ r._metadata.filepath = FilePath(e.name)

DistinctMtimes ==
    \A i, j \in MatchingIdx : i # j => entries[i].mtime # entries[j].mtime

\* C1: when every matching file parses and the modification times differ,
\* get_latest_report returns the report parsed from the file of greatest
\* modification time, whatever the alphabetical order of the names.
C1_LatestIsNewest ==
    (/\ call.fn = "get_latest_report"
     /\ MatchingIdx # {}
     /\ ParsableIdx = MatchingIdx
     /\ DistinctMtimes)
    => \E i \in NewestIdx : IsReportOf(call.ret, entries[i])

\* C1 witness: the newest file was returned although its name sorts before
\* the name of an older file
C1_Witness ==
    /\ call.fn = "get_latest_report"
    /\ ParsableIdx = MatchingIdx
    /\ DistinctMtimes
    /\ \E i \in NewestIdx, j \in MatchingIdx :
          /\ NameBefore(entries[i].name, entries[j].name)
          /\ IsReportOf(call.ret, entries[i])

\* C2: get_all_reports returns exactly the matching files that parse, in
\* ascending modification-time order; every file that fails to parse is
\* skipped with one diagnostic of its own, and nothing is raised.
C2_AllReports ==
    call.fn = "get_all_reports" =>
        /\ ~call.raised
        /\ Len(call.ret) = Cardinality(ParsableIdx)
        /\ \A i \in ParsableIdx :
              \E k \in DOMAIN call.ret : IsReportOf(call.ret[k], entries[i])
        /\ \A k, l \in DOMAIN call.ret :
              k < l => call.ret[k]._metadata.last_modified.iso
                          <= call.ret[l]._metadata.last_modified.iso
        /\ Len(call.log) = Cardinality(MatchingIdx \ ParsableIdx)
        /\ \A i \in MatchingIdx \ ParsableIdx :
              \E k \in DOMAIN call.log :
                 /\ call.log[k].msg = "Error loading"
                 /\ call.log[k].file = FilePath(entries[i].name)

\* C2 witness: one corrupt file between two valid ones; both valid reports
\* are returned and one diagnostic is recorded
C2_Witness ==
    /\ call.fn = "get_all_reports"
    /\ Cardinality(ParsableIdx) = 2
    /\ \E i \in MatchingIdx : \E j, k \in ParsableIdx :
          /\ entries[i].kind = "corrupt"
          /\ entries[j].mtime < entries[i].mtime
          /\ entries[i].mtime < entries[k].mtime
    /\ Len(call.ret) = 2
    /\ Len(call.log) = 1

\* C3 as stated: whenever some matching file parses, get_latest_report
\* returns the report of the newest file that parses.
C3_Original ==
    (call.fn = "get_latest_report" /\ ParsableIdx # {})
    => \E i \in ParsableIdx :
          /\ \A j \in ParsableIdx : entries[j].mtime <= entries[i].mtime
          /\ IsReportOf(call.ret, entries[i])

\* C3 amended: a file that fails to parse is never returned; when the files
\* of greatest modification time parse, the report of one of them is
\* returned whatever the older files hold; when the files of greatest
\* modification time fail to parse, the result is absent even if an older
\* file parses.
C3_NewestDecides ==
    call.fn = "get_latest_report" =>
        /\ call.ret # NONE => \E i \in ParsableIdx \cap NewestIdx :
                                 IsReportOf(call.ret, entries[i])
        /\ (NewestIdx # {} /\ NewestIdx \subseteq ParsableIdx) => call.ret # NONE
        /\ (NewestIdx \cap ParsableIdx = {}) => call.ret = NONE

\* C3 witness: the newest file parses and is returned although an older
\* matching file is corrupt
C3_Witness ==
    /\ call.fn = "get_latest_report"
    /\ call.ret # NONE
    /\ NewestIdx \subseteq ParsableIdx
    /\ \E j \in MatchingIdx \ NewestIdx : entries[j].kind = "corrupt"

\* position of the file get_latest_report selects: the first matching entry,
\* in directory order, of greatest modification time
SelectedIdx == {i \in NewestIdx : \A j \in NewestIdx : i <= j}

\* C4: get_latest_report never raises, and when the file it selected fails
\* to parse it logs one diagnostic and returns absent.
C4_LatestFailsSoft ==
    call.fn = "get_latest_report" =>
        /\ ~call.raised
        /\ \A i \in SelectedIdx :
              entries[i].kind # "object" =>
                 /\ call.ret = NONE
                 /\ Len(call.log) = 1
                 /\ call.log[1].msg = "Error loading report"

\* C4 witness: the selected file is corrupt while an older file parses, and
\* the call has returned absent with its diagnostic
C4_Witness ==
    /\ call.fn = "get_latest_report"
    /\ \E i \in SelectedIdx : entries[i].kind = "corrupt"
    /\ ParsableIdx # {}
    /\ call.ret = NONE
    /\ Len(call.log) = 1

\* the reports a call has returned
ReturnedReports ==
    IF call.fn = "get_all_reports" THEN Range(call.ret)
    ELSE IF call.fn = "get_latest_report" /\ call.ret # NONE THEN {call.ret}
    ELSE {}

\* C5: without the directory, or without a matching file in it,
\* get_latest_report returns absent and get_all_reports the empty sequence,
\* with no diagnostic and no exception; a file whose name does not match the
\* pattern is never loaded.
C5_NoData ==
    /\ (call.fn = "get_latest_report" /\ (~dirExists \/ MatchingIdx = {}))
          => (call.ret = NONE /\ call.log = <<>> /\ ~call.raised)
    /\ (call.fn = "get_all_reports" /\ (~dirExists \/ MatchingIdx = {}))
          => (call.ret = <<>> /\ call.log = <<>> /\ ~call.raised)
    /\ \A r \in ReturnedReports : Matches(r._metadata.filename)
    /\ \A k \in DOMAIN call.log :
          Has(call.log[k], "file") => Matches(call.log[k].file.base)

\* C5 witness: the directory holds files, none of them matching, and a call
\* has returned its no-data value
C5_Witness ==
    /\ call.fn \in {"get_latest_report", "get_all_reports"}
    /\ dirExists
    /\ entries # <<>>
    /\ MatchingIdx = {}
    /\ call.ret \in {NONE, <<>>}

\* the same with the directory missing
C5_WitnessMissingDir ==
    /\ call.fn \in {"get_latest_report", "get_all_reports"}
    /\ ~dirExists

\* C18: every report returned by get_latest_report or get_all_reports
\* carries _metadata with exactly filename, filepath and last_modified;
\* filepath is the path of a matching file of the directory whose object the
\* report holds, filename is that file's base name and last_modified its
\* modification time.
C18_MetadataAttached ==
    \A r \in ReturnedReports :
        /\ Has(r, "_metadata")
        /\ DOMAIN r._metadata = {"filename", "filepath", "last_modified"}
        /\ \E i \in DOMAIN entries :
              /\ Matches(entries[i].name)
              /\ entries[i].kind = "object"
              /\ r._metadata.filepath = [dir |-> DataDir, base |-> entries[i].name]
              /\ r._metadata.filename = entries[i].name
              /\ r._metadata.last_modified = [iso |-> entries[i].mtime]
              /\ \A k \in DOMAIN entries[i].body : r[k] = entries[i].body[k]

\* C18 witness: get_all_reports returned two reports parsed from two files of
\* different names, and get_latest_report returned one
C18_Witness ==
    /\ call.fn = "get_all_reports"
    /\ Len(call.ret) = 2
    /\ call.ret[1]._metadata.filename # call.ret[2]._metadata.filename
    /\ call.ret[1]._metadata.filepath.base = call.ret[1]._metadata.filename

\* C18 witness: get_latest_report returned a report with its metadata
C18_WitnessLatest ==
    /\ call.fn = "get_latest_report"
    /\ call.ret # NONE
    /\ Has(call.ret, "_metadata")

\* the file a loaded report was parsed from
SourceFile(report) == report._metadata.filepath

\* C25 as claimed: when every matching file parses, the report returned by
\* get_latest_report is parsed from the same file as the last element of
\* get_all_reports, also when several files share the greatest modification
\* time.
C25_Original ==
    (/\ call.fn = "get_latest_report"
     /\ MatchingIdx # {}
     /\ ParsableIdx = MatchingIdx)
    => LET all_reports == get_all_reports(dirExists, entries).ret
       IN  SourceFile(call.ret) = SourceFile(all_reports[Len(all_reports)])

\* C25 amended: when every matching file parses, get_latest_report returns
\* the report of the first file, in the order of the directory listing,
\* among those of greatest modification time, and get_all_reports ends with
\* the report of the last such file; the two are the same report when one
\* file alone has the greatest modification time, and reports of different
\* files when several share it.
C25_SameFileUnlessTied ==
    (/\ call.fn = "get_latest_report"
     /\ MatchingIdx # {}
     /\ ParsableIdx = MatchingIdx)
    => LET all_reports == get_all_reports(dirExists, entries).ret
           first == CHOOSE i \in NewestIdx : \A j \in NewestIdx : i <= j
           last  == CHOOSE i \in NewestIdx : \A j \in NewestIdx : j <= i
       IN  /\ IsReportOf(call.ret, entries[first])
           /\ IsReportOf(all_reports[Len(all_reports)], entries[last])
           /\ Cardinality(NewestIdx) = 1 => call.ret = all_reports[Len(all_reports)]
           /\ Cardinality(NewestIdx) > 1 =>
                 SourceFile(call.ret) # SourceFile(all_reports[Len(all_reports)])

\* C25 witness: two files that parse share the greatest modification time;
\* get_latest_report returned the report of the one listed first, and
\* get_all_reports ends with the report of the other
C25_Witness ==
    /\ call.fn = "get_latest_report"
    /\ ParsableIdx = MatchingIdx
    /\ Cardinality(NewestIdx) = 2
    /\ \E i, j \in NewestIdx :
          /\ i < j
          /\ SourceFile(call.ret) = FilePath(entries[i].name)
          /\ LET all_reports == get_all_reports(dirExists, entries).ret
             IN  SourceFile(all_reports[Len(all_reports)]) = FilePath(entries[j].name)

\* C25 witness: one file alone is the newest, both functions read it
C25_WitnessUnique ==
    /\ call.fn = "get_latest_report"
    /\ ParsableIdx = MatchingIdx
    /\ Cardinality(MatchingIdx) = 2
    /\ Cardinality(NewestIdx) = 1
    /\ LET all_reports == get_all_reports(dirExists, entries).ret
       IN  call.ret = all_reports[Len(all_reports)]

(***************************************************************************)
(* Specification of the aggregators over the reports the loader returns    *)
(***************************************************************************)
\* the dicts that hold key k with a value of S, or lack it
OptField(k, S) == {<<>>} \cup {k :> v : v \in S}

TopicInputs ==
    {p @@ i : p \in OptField("partitions", {0, 1, 3}),
              i \in OptField("isInternal", BOOLEAN)}
    \cup {[partitions |-> 1, isInternal |-> i, errorCode |-> e] :
              i \in BOOLEAN, e \in {0, 1}}

GroupInputs == OptField("members", {0, 1, 5})

BrokerInputs == {[nodeId |-> "1"], [nodeId |-> "2"]}

ClusterInfoInputs ==
    {c @@ k @@ b : c \in OptField("clusterId", {"c1"}),
                   k \in OptField("controller", {"1"}),
                   b \in OptField("brokers", SeqUpTo(BrokerInputs, MaxBrokers))}

CheckInputs ==
    {d @@ r @@ s : d \in OptField("description", {"d"}),
                   r \in OptField("recommendation", {"r"}),
                   s \in OptField("status", {"FAILED", "WARNING", "INFO"})}

HealthChecksInputs ==
    {t @@ p @@ f @@ w : t \in OptField("totalChecks", 0..MaxCount),
                        p \in OptField("passedChecks", 0..MaxCount),
                        f \in OptField("failedChecks", {0, 1}),
                        w \in OptField("warnings", {1})}
    \cup OptField("checks", SeqUpTo(CheckInputs, MaxChecks))

\* a report as the loader returns it, with every sub-object absent
BaseReport ==
    LoadFile(DirEntry([stem |-> "kafka-analysis-", tok |-> 1, ext |-> ".json"],
                      1, [kind |-> "object", body |-> [timestamp |-> 1]])).val

InitAgg ==
    /\ dirExists = TRUE
    /\ entries = <<>>
    /\ call = Idle
    /\ NoDashboard
    /\ NoLauncher
    /\ \/ data = BaseReport
       \/ \E hc \in HealthChecksInputs : data = ("healthChecks" :> hc) @@ BaseReport
       \/ \E ts \in SeqUpTo(TopicInputs, MaxTopics) :
             data = ("topics" :> ts) @@ BaseReport
       \/ \E gs \in SeqUpTo(GroupInputs, MaxGroups) :
             data = ("consumerGroups" :> gs) @@ BaseReport
       \/ \E ci \in ClusterInfoInputs : data = ("clusterInfo" :> ci) @@ BaseReport

\* the record of a call: what it returned, or that it raised
Called(fn, out) == [fn |-> fn, raised |-> out.raised, ret |-> out.val, log |-> <<>>]

GetHealthScore ==
    /\ call' = Called("get_health_score", get_health_score_call(data))
    /\ UNCHANGED <<dirExists, entries, data, runs, page, proc>>

GetTopicsSummary ==
    /\ call' = Called("get_topics_summary", get_topics_summary_call(data))
    /\ UNCHANGED <<dirExists, entries, data, runs, page, proc>>

GetBrokerInfo ==
    /\ call' = Called("get_broker_info", get_broker_info_call(data))
    /\ UNCHANGED <<dirExists, entries, data, runs, page, proc>>

GetConsumerGroupsSummary ==
    /\ call' = Called("get_consumer_groups_summary", get_consumer_groups_summary_call(data))
    /\ UNCHANGED <<dirExists, entries, data, runs, page, proc>>

ExtractHealthChecksDetails ==
    /\ call' = Called("extract_health_checks_details",
                      extract_health_checks_details_call(data))
    /\ UNCHANGED <<dirExists, entries, data, runs, page, proc>>

NextAgg ==
    \/ GetHealthScore
    \/ GetTopicsSummary
    \/ GetBrokerInfo
    \/ GetConsumerGroupsSummary
    \/ ExtractHealthChecksDetails

SpecAgg == InitAgg /\ [][NextAgg]_vars

(***************************************************************************)
(* Properties of the aggregators (checked under SpecAgg)                   *)
(***************************************************************************)
\* the healthChecks counters of the report, 0 when absent
TotalChecks ==
    IF Has(data, "healthChecks") /\ Has(data.healthChecks, "totalChecks")
    THEN data.healthChecks.totalChecks ELSE 0

PassedChecks ==
    IF Has(data, "healthChecks") /\ Has(data.healthChecks, "passedChecks")
    THEN data.healthChecks.passedChecks ELSE 0

\* C6: get_health_score is passedChecks / totalChecks * 100 when
\* totalChecks > 0, and 0 when totalChecks is 0 or healthChecks / totalChecks
\* is absent, whatever passedChecks, failedChecks and warnings are.
C6_HealthScore ==
    call.fn = "get_health_score" =>
        /\ call.ret.den > 0
        /\ TotalChecks > 0 => call.ret.num * TotalChecks = PassedChecks * 100 * call.ret.den
        /\ TotalChecks = 0 => call.ret = Zero

\* C6 witness: two of three checks passed and the score is 200/3
C6_Witness ==
    /\ call.fn = "get_health_score"
    /\ TotalChecks = 3
    /\ PassedChecks = 2
    /\ call.ret = [num |-> 200, den |-> 3]

\* C6 witness of the zero case: no checks in total, yet passed and failed
\* checks are reported, and the score is 0
C6_WitnessZero ==
    /\ call.fn = "get_health_score"
    /\ Has(data, "healthChecks")
    /\ TotalChecks = 0
    /\ PassedChecks > 0
    /\ Has(data.healthChecks, "failedChecks")
    /\ call.ret = Zero

\* the score lies in [0, 100]
ScoreInRange == call.ret.num >= 0 /\ call.ret.num <= 100 * call.ret.den

\* C7 as stated: for every report the loader can return, the health score
\* lies in [0, 100].
C7_Original == call.fn = "get_health_score" => ScoreInRange

\* C7 amended: the health score lies in [0, 100] for every report whose
\* counters satisfy 0 <= passedChecks <= totalChecks; the loader does not
\* enforce this, and with passedChecks > totalChecks > 0 the score is above 100.
C7_ScoreInRange ==
    call.fn = "get_health_score" =>
        /\ (0 <= PassedChecks /\ (PassedChecks <= TotalChecks \/ TotalChecks = 0))
              => ScoreInRange
        /\ (PassedChecks > TotalChecks /\ TotalChecks > 0)
              => call.ret.num > 100 * call.ret.den

\* C7 witness: every check passed and the score is exactly 100
C7_Witness ==
    /\ call.fn = "get_health_score"
    /\ TotalChecks = MaxCount
    /\ PassedChecks = TotalChecks
    /\ call.ret = [num |-> 100, den |-> 1]

\* the topics of the report, empty when absent
Topics == IF Has(data, "topics") THEN data.topics ELSE <<>>

IsInternal(t) == Has(t, "isInternal") /\ t.isInternal
Partitions(t) == IF Has(t, "partitions") THEN t.partitions ELSE 0
HasError(t)   == Has(t, "errorCode") /\ t.errorCode # 0

TotalPartitions == Sum([i \in DOMAIN Topics |-> Partitions(Topics[i])])

\* the counting fields of get_topics_summary
TopicCountsRight ==
    /\ call.ret.total_topics = Len(Topics)
    /\ call.ret.user_topics = Cardinality({i \in DOMAIN Topics : ~IsInternal(Topics[i])})
    /\ call.ret.internal_topics = Cardinality({i \in DOMAIN Topics : IsInternal(Topics[i])})
    /\ call.ret.user_topics + call.ret.internal_topics = call.ret.total_topics
    /\ call.ret.total_partitions = TotalPartitions
    /\ call.ret.topics_with_errors = Cardinality({i \in DOMAIN Topics : HasError(Topics[i])})
    /\ Topics = <<>> =>
          call.ret = [total_topics |-> 0, user_topics |-> 0, internal_topics |-> 0,
                      total_partitions |-> 0, avg_partitions_per_topic |-> 0,
                      topics_with_errors |-> 0]

\* C8 as stated: the counting fields, and avg_partitions_per_topic equal to
\* total_partitions / total_topics (the field is held in hundredths).
C8_Original ==
    call.fn = "get_topics_summary" =>
        /\ TopicCountsRight
        /\ call.ret.avg_partitions_per_topic * Len(Topics) = TotalPartitions * 100

\* C8 amended: the counting fields, and avg_partitions_per_topic equal to
\* total_partitions / total_topics rounded to two decimals (0 without topics).
C8_TopicsSummary ==
    call.fn = "get_topics_summary" =>
        /\ TopicCountsRight
        /\ LET diff == call.ret.avg_partitions_per_topic * Len(Topics)
                          - TotalPartitions * 100
           IN  /\ 2 * diff <= Len(Topics)
               /\ -2 * diff <= Len(Topics)

\* C8 witness: topics [{partitions 3, user}, {partitions 0, internal}] give
\* total 2, user 1, internal 1, partitions 3, average 1.5
C8_Witness ==
    /\ call.fn = "get_topics_summary"
    /\ Topics = <<[partitions |-> 3, isInternal |-> FALSE],
                  [partitions |-> 0, isInternal |-> TRUE]>>
    /\ call.ret = [total_topics |-> 2, user_topics |-> 1, internal_topics |-> 1,
                   total_partitions |-> 3, avg_partitions_per_topic |-> 150,
                   topics_with_errors |-> 0]

\* C8 witness of the rounding: three topics with one partition in all give 0.33
C8_WitnessRounded ==
    /\ call.fn = "get_topics_summary"
    /\ Len(Topics) = 3
    /\ TotalPartitions = 1
    /\ call.ret.avg_partitions_per_topic = 33

\* a consumer group is active iff it has members
IsActive(cg) == Has(cg, "members") /\ cg.members > 0

\* C9: for every consumerGroups list, total_groups is its length,
\* active_groups the number of groups with members > 0, inactive_groups the
\* number of the others, and active_groups + inactive_groups = total_groups.
C9_ConsumerGroups ==
    (call.fn = "get_consumer_groups_summary" /\ Has(data, "consumerGroups")) =>
        LET groups == data.consumerGroups
        IN  /\ call.ret.total_groups = Len(groups)
            /\ call.ret.active_groups =
                  Cardinality({i \in DOMAIN groups : IsActive(groups[i])})
            /\ call.ret.inactive_groups =
                  Cardinality({i \in DOMAIN groups : ~IsActive(groups[i])})
            /\ call.ret.active_groups + call.ret.inactive_groups = call.ret.total_groups
            /\ call.ret.groups = groups

\* C9 witness: [{members 0}, {members 5}, {members 0}] gives active 1,
\* inactive 2, total 3
C9_Witness ==
    /\ call.fn = "get_consumer_groups_summary"
    /\ Has(data, "consumerGroups")
    /\ data.consumerGroups = <<[members |-> 0], [members |-> 5], [members |-> 0]>>
    /\ call.ret.active_groups = 1
    /\ call.ret.inactive_groups = 2
    /\ call.ret.total_groups = 3

\* the results on a report whose sub-object is present but empty
EmptyTopicsSummary ==
    [total_topics |-> 0, user_topics |-> 0, internal_topics |-> 0,
     total_partitions |-> 0, avg_partitions_per_topic |-> 0, topics_with_errors |-> 0]

EmptyGroupsSummary ==
    [total_groups |-> 0, active_groups |-> 0, inactive_groups |-> 0, groups |-> <<>>]

EmptyBrokerInfo ==
    [total_brokers |-> 0, cluster_id |-> "Unknown", controller |-> "Unknown",
     brokers |-> <<>>]

\* the key is present and its value is empty
EmptyAt(k) == Has(data, k) /\ data[k] = <<>>

\* on a present but empty sub-object every aggregator returns its zero value
ZeroOnEmpty ==
    /\ (call.fn = "get_topics_summary" /\ EmptyAt("topics"))
          => call.ret = EmptyTopicsSummary
    /\ (call.fn = "get_health_score" /\ EmptyAt("healthChecks")) => call.ret = Zero
    /\ (call.fn = "extract_health_checks_details" /\ EmptyAt("healthChecks"))
          => call.ret = <<>>
    /\ (call.fn = "get_consumer_groups_summary" /\ EmptyAt("consumerGroups"))
          => call.ret = EmptyGroupsSummary
    /\ (call.fn = "get_broker_info" /\ EmptyAt("clusterInfo"))
          => call.ret = EmptyBrokerInfo

\* on an absent topics / healthChecks the result is the one on an empty one
SameOnAbsentTopicsAndHealth ==
    /\ (call.fn = "get_topics_summary" /\ ~Has(data, "topics"))
          => call.ret = EmptyTopicsSummary
    /\ (call.fn = "get_health_score" /\ ~Has(data, "healthChecks")) => call.ret = Zero
    /\ (call.fn = "extract_health_checks_details" /\ ~Has(data, "healthChecks"))
          => call.ret = <<>>

Accessors ==
    {"get_health_score", "get_topics_summary", "get_broker_info",
     "get_consumer_groups_summary", "extract_health_checks_details"}

\* C11: on a report in which any of the expected keys is absent (top-level
\* keys, fields of healthChecks, clusterInfo, topics, consumer groups and
\* checks) none of the five accessors raises: each call returns a value.
C11_AccessorsNeverRaise ==
    call.fn \in Accessors => ~call.raised

\* C11 witness: extract_health_checks_details returned on a report whose
\* healthChecks holds a check without any field, and whose topics,
\* consumerGroups and clusterInfo are absent
C11_Witness ==
    /\ call.fn = "extract_health_checks_details"
    /\ ~call.raised
    /\ Has(data, "healthChecks") /\ Has(data.healthChecks, "checks")
    /\ \E i \in DOMAIN data.healthChecks.checks :
           data.healthChecks.checks[i] = <<>>
    /\ ~Has(data, "topics") /\ ~Has(data, "clusterInfo")

\* C11 witness: an accessor returned on a report without its sub-object
C11_WitnessAbsentTopLevel ==
    /\ call.fn = "get_consumer_groups_summary"
    /\ ~call.raised
    /\ ~Has(data, "consumerGroups")

\* the raw checks of the report, [] when absent
Checks ==
    IF Has(data, "healthChecks") /\ Has(data.healthChecks, "checks")
    THEN data.healthChecks.checks ELSE <<>>

\* C13: extract_health_checks_details returns one entry per raw check, in
\* source order; the entry at zero-based position i has id = i, name =
\* "Health Check " + (i+1), message = the check's description or "No
\* description available", recommendation = the check's recommendation or
\* "No recommendation"; the output is as long as the list of checks.
C13_HealthChecksDetails ==
    call.fn = "extract_health_checks_details" =>
        /\ Len(call.ret) = Len(Checks)
        /\ \A k \in 1..Len(Checks) :
              /\ call.ret[k].id = k - 1
              /\ call.ret[k].name = [text |-> "Health Check ", number |-> k]
              /\ call.ret[k].message =
                    IF Has(Checks[k], "description") THEN Checks[k].description
                    ELSE "No description available"
              /\ call.ret[k].recommendation =
                    IF Has(Checks[k], "recommendation")
                    THEN Checks[k].recommendation
                    ELSE "No recommendation"

\* C13 witness: two checks were extracted, the first with a description and
\* no recommendation, the second with a recommendation and no description
C13_Witness ==
    /\ call.fn = "extract_health_checks_details"
    /\ Len(Checks) = 2
    /\ Len(call.ret) = 2
    /\ Has(Checks[1], "description") /\ ~Has(Checks[1], "recommendation")
    /\ ~Has(Checks[2], "description") /\ Has(Checks[2], "recommendation")
    /\ call.ret[2].id = 1

\* C16: with clusterInfo present, get_broker_info projects it: total_brokers
\* is the length of clusterInfo.brokers, brokers is that sequence unchanged,
\* cluster_id and controller are clusterInfo.clusterId and
\* clusterInfo.controller, each "Unknown" exactly when the field is absent.
C16_BrokerInfoProjection ==
    (call.fn = "get_broker_info" /\ Has(data, "clusterInfo")) =>
        LET ci      == data.clusterInfo
            brokers == IF Has(ci, "brokers") THEN ci.brokers ELSE <<>>
        IN  /\ DOMAIN call.ret =
                  {"total_brokers", "cluster_id", "controller", "brokers"}
            /\ call.ret.total_brokers = Len(brokers)
            /\ call.ret.brokers = brokers
            /\ call.ret.cluster_id =
                  IF Has(ci, "clusterId") THEN ci.clusterId ELSE "Unknown"
            /\ call.ret.controller =
                  IF Has(ci, "controller") THEN ci.controller ELSE "Unknown"

\* C16 witness: a clusterInfo with two different brokers, a clusterId and no
\* controller was projected
C16_Witness ==
    /\ call.fn = "get_broker_info"
    /\ Has(data, "clusterInfo")
    /\ Has(data.clusterInfo, "brokers")
    /\ Len(data.clusterInfo.brokers) = 2
    /\ data.clusterInfo.brokers[1] # data.clusterInfo.brokers[2]
    /\ Has(data.clusterInfo, "clusterId") /\ ~Has(data.clusterInfo, "controller")
    /\ call.ret.total_brokers = 2
    /\ call.ret.controller = "Unknown"

(***************************************************************************)
(* Presentation: ChartBuilder, MetricsCards, LayoutComponents and the      *)
(* content builders of KafkaDashboard. A figure is a record of what it     *)
(* draws: its title and its annotation or its trace data.                  *)
(***************************************************************************)
MaxDashTopics == 2   \* topics of a report handed to the callbacks
MaxRfTopics == 4     \* topics of a report handed to the replication chart

\* go.Figure()
EmptyFigure == [title |-> "none"]

\* variant of create_health_score_gauge: the thresholds are exclusive
create_health_score_gauge_Exclusive(health_score) ==
    [title |-> "Cluster Health Score",
     value |-> health_score,
     color |-> IF health_score.num > 90 * health_score.den THEN "#28a745"
               ELSE IF health_score.num > 70 * health_score.den THEN "#ffc107"
               ELSE "#dc3545"]

\* "if health_score >= 90 ... elif health_score >= 70 ... else ..."
create_health_score_gauge(health_score) ==
    [title |-> "Cluster Health Score",
     value |-> health_score,
     color |-> IF health_score.num >= 90 * health_score.den THEN "#28a745"
               ELSE IF health_score.num >= 70 * health_score.den THEN "#ffc107"
               ELSE "#dc3545"]

create_health_checks_summary(health_data) ==
    [title |-> "Health Checks Summary",
     x     |-> <<"Passed", "Failed", "Warnings">>,
     y     |-> <<Get(health_data, "passedChecks", 0),
                 Get(health_data, "failedChecks", 0),
                 Get(health_data, "warnings", 0)>>]

create_topics_distribution(topics_data) ==
    [title  |-> "Topics Distribution",
     labels |-> <<"User Topics", "Internal Topics">>,
     values |-> <<Get(topics_data, "user_topics", 0),
                  Get(topics_data, "internal_topics", 0)>>]

\* topic_names = [t['name'] for t in user_topics] raises KeyError at the
\* first user topic that has no name
create_partitions_per_topic(topics) ==
    LET user_topics == SelectSeq(topics, LAMBDA t : ~Get(t, "isInternal", FALSE))
    IN  IF user_topics = <<>>
        THEN Returned([title |-> "Partitions per Topic",
                       annotation |-> "No user topics found"])
        ELSE IF \E i \in DOMAIN user_topics : Subscript(user_topics[i], "name").raised
        THEN Raised("KeyError")
        ELSE Returned([title |-> "Partitions per Topic",
                       x |-> [i \in DOMAIN user_topics |->
                                 Subscript(user_topics[i], "name").val],
                       y |-> [i \in DOMAIN user_topics |->
                                 Get(user_topics[i], "partitions", 0)]])

create_consumer_groups_chart(consumer_groups) ==
    IF consumer_groups = <<>>
    THEN [title |-> "Consumer Groups Status",
          annotation |-> "No consumer groups found"]
    ELSE LET active_count == Cardinality({i \in DOMAIN consumer_groups :
                                 Get(consumer_groups[i], "members", 0) > 0})
         IN  [title  |-> "Consumer Groups Status",
              labels |-> <<"Active", "Inactive">>,
              values |-> <<active_count, Len(consumer_groups) - active_count>>]

\* variant of RfCounts: counting a key again moves it to the end
RECURSIVE RfCounts_MoveToEnd(_)
RfCounts_MoveToEnd(topics) ==
    IF topics = <<>> THEN <<>>
    ELSE LET n         == Len(topics)
             rf_counts == RfCounts_MoveToEnd(SubSeq(topics, 1, n - 1))
             rf        == Get(topics[n], "replicationFactor", 1)
             seen      == SelectSeq(rf_counts, LAMBDA c : c.rf = rf)
             others    == SelectSeq(rf_counts, LAMBDA c : c.rf # rf)
         IN  IF seen # <<>>
             THEN Append(others, [rf |-> rf, count |-> seen[1].count + 1])
             ELSE Append(rf_counts, [rf |-> rf, count |-> 1])

\* rf_counts after "for topic in topics: rf = topic.get('replicationFactor',
\* 1); rf_counts[rf] = rf_counts.get(rf, 0) + 1": the items of the dict in
\* insertion order
RECURSIVE RfCounts(_)
RfCounts(topics) ==
    IF topics = <<>> THEN <<>>
    ELSE LET n         == Len(topics)
             rf_counts == RfCounts(SubSeq(topics, 1, n - 1))
             rf        == Get(topics[n], "replicationFactor", 1)
         IN  IF \E i \in DOMAIN rf_counts : rf_counts[i].rf = rf
             THEN [i \in DOMAIN rf_counts |->
                      IF rf_counts[i].rf = rf
                      THEN [rf |-> rf, count |-> rf_counts[i].count + 1]
                      ELSE rf_counts[i]]
             ELSE Append(rf_counts, [rf |-> rf, count |-> 1])

\* f"RF={rf}"
RfLabel(rf) == [text |-> "RF=", rf |-> rf]

create_replication_factor_chart(topics) ==
    IF topics = <<>>
    THEN [title |-> "Replication Factor Distribution",
          annotation |-> "No topics found"]
    ELSE LET rf_counts == RfCounts(topics)
         IN  [title |-> "Replication Factor Distribution",
              x |-> [i \in DOMAIN rf_counts |-> RfLabel(rf_counts[i].rf)],
              y |-> [i \in DOMAIN rf_counts |-> rf_counts[i].count]]

\* f"{value:.1f}"
Format1f(hundredths) == [format |-> ".1f", hundredths |-> hundredths]

\* MetricsCards.create_cluster_metrics
create_cluster_metrics(cluster_info, topics_summary, consumer_summary) ==
    <<[title |-> "Total Brokers",    value |-> Get(cluster_info, "total_brokers", 0)],
      [title |-> "Total Topics",     value |-> Get(topics_summary, "total_topics", 0)],
      [title |-> "Total Partitions", value |-> Get(topics_summary, "total_partitions", 0)],
      [title |-> "Consumer Groups",  value |-> Get(consumer_summary, "total_groups", 0)],
      [title |-> "Active Groups",    value |-> Get(consumer_summary, "active_groups", 0)],
      [title |-> "Avg Partitions/Topic",
       value |-> Format1f(Get(topics_summary, "avg_partitions_per_topic", 0))]>>

\* LayoutComponents.create_no_data_message
create_no_data_message == [panel |-> "no-data", text |-> "No Kafka Analysis Data Found"]

\* KafkaDashboard.create_dashboard_content: the metrics cards and the empty
\* cards the charts callback fills
create_dashboard_content(kafka_data) ==
    LET health_score     == get_health_score_call(kafka_data)
        topics_summary   == get_topics_summary_call(kafka_data)
        broker_info      == get_broker_info_call(kafka_data)
        consumer_summary == get_consumer_groups_summary_call(kafka_data)
    IN  IF health_score.raised THEN health_score
        ELSE IF topics_summary.raised THEN topics_summary
        ELSE IF broker_info.raised THEN broker_info
        ELSE IF consumer_summary.raised THEN consumer_summary
        ELSE Returned(
               [panel   |-> "dashboard",
                metrics |-> create_cluster_metrics(broker_info.val, topics_summary.val,
                                                   consumer_summary.val),
                cards   |-> <<"health-score-gauge", "health-checks-summary",
                              "topics-distribution", "partitions-chart",
                              "consumer-groups-chart", "replication-factor-chart",
                              "cluster-info", "health-details-table">>])

\* variant of update_main_content: no test of the snapshot, the dashboard
\* content is built from whatever the store holds
update_main_content_NoGuard(kafka_data) == create_dashboard_content(kafka_data)

\* KafkaDashboard.update_main_content
update_main_content(kafka_data) ==
    IF ~Truthy(kafka_data) THEN Returned(create_no_data_message)
    ELSE create_dashboard_content(kafka_data)

\* f"Broker {broker.get('nodeId', 'Unknown')}"
BrokerBadge(broker) == [text |-> "Broker ", nodeId |-> Get(broker, "nodeId", "Unknown")]

\* KafkaDashboard.create_cluster_info_content
create_cluster_info_content(kafka_data, broker_info) ==
    LET brokers == Get(broker_info, "brokers", <<>>)
    IN  [vendor        |-> Get(kafka_data, "vendor", "Unknown"),
         cluster_id    |-> Get(broker_info, "cluster_id", "Unknown"),
         controller    |-> Get(broker_info, "controller", "Unknown"),
         last_analysis |-> Get(kafka_data, "timestamp", "Unknown"),
         total_brokers |-> Get(broker_info, "total_brokers", 0),
         badges        |-> [i \in DOMAIN brokers |-> BrokerBadge(brokers[i])]]

\* KafkaDashboard.get_status_emoji: status_map.get(status, '? UNKNOWN')
get_status_emoji(status) ==
    IF status = "PASSED" THEN [icon |-> "check-mark", text |-> "PASSED"]
    ELSE IF status = "FAILED" THEN [icon |-> "cross-mark", text |-> "FAILED"]
    ELSE IF status = "WARNING" THEN [icon |-> "warning-sign", text |-> "WARNING"]
    ELSE IF status = "INFO" THEN [icon |-> "information", text |-> "INFO"]
    ELSE [icon |-> "?", text |-> "UNKNOWN"]

\* KafkaDashboard.create_health_details_table, with
\* LayoutComponents.create_data_table
create_health_details_table(kafka_data) ==
    LET details == extract_health_checks_details_call(kafka_data)
    IN  IF details.raised THEN details
        ELSE IF details.val = <<>>
        THEN Returned([text |-> "No health check details available"])
        ELSE LET health_details == details.val
             IN  Returned(
                   [id   |-> "health-table",
                    data |-> [i \in DOMAIN health_details |->
                       [status         |-> get_status_emoji(
                                              Get(health_details[i], "status", "UNKNOWN")),
                        name           |-> Get(health_details[i], "name", "Unknown Check"),
                        message        |-> Get(health_details[i], "message", "No message"),
                        recommendation |-> Get(health_details[i], "recommendation",
                                               "No recommendation")]]])

\* KafkaDashboard.create_chart_callbacks.update_charts: no try/except, an
\* exception of a builder leaves the callback
update_charts(kafka_data) ==
    IF ~Truthy(kafka_data)
    THEN Returned(<<EmptyFigure, EmptyFigure, EmptyFigure, EmptyFigure, EmptyFigure,
                    EmptyFigure, [text |-> "No data available"],
                    [text |-> "No data available"]>>)
    ELSE LET health_score     == get_health_score_call(kafka_data)
             health_data      == Get(kafka_data, "healthChecks", <<>>)
             topics_summary   == get_topics_summary_call(kafka_data)
             topics           == Get(kafka_data, "topics", <<>>)
             consumer_groups  == Get(kafka_data, "consumerGroups", <<>>)
             broker_info      == get_broker_info_call(kafka_data)
             partitions_chart == create_partitions_per_topic(topics)
             health_details   == create_health_details_table(kafka_data)
         IN  IF health_score.raised THEN health_score
             ELSE IF topics_summary.raised THEN topics_summary
             ELSE IF broker_info.raised THEN broker_info
             ELSE IF partitions_chart.raised THEN partitions_chart
             ELSE IF health_details.raised THEN health_details
             ELSE Returned(
                    <<create_health_score_gauge(health_score.val),
                      create_health_checks_summary(health_data),
                      create_topics_distribution(topics_summary.val),
                      partitions_chart.val,
                      create_consumer_groups_chart(consumer_groups),
                      create_replication_factor_chart(topics),
                      create_cluster_info_content(kafka_data, broker_info.val),
                      health_details.val>>)

(***************************************************************************)
(* Specification of the presentation over the snapshot of the kafka-data   *)
(* store: absent, or a report the loader returned                          *)
(***************************************************************************)
\* topics as the partitions chart reads them: name, isInternal, partitions
DashTopicInputs ==
    {n @@ i @@ q : n \in OptField("name", {"orders"}),
                   i \in OptField("isInternal", BOOLEAN),
                   q \in OptField("partitions", {2})}

\* topics as the replication chart reads them
RfTopicInputs ==
    {[name |-> "orders"] @@ r : r \in OptField("replicationFactor", {1, 2, 3})}

InitDash ==
    \/ InitAgg
    \/ /\ dirExists = TRUE
       /\ entries = <<>>
       /\ call = Idle
       /\ NoDashboard
       /\ NoLauncher
       /\ \/ data = NONE
          \/ \E ts \in SeqUpTo(DashTopicInputs, MaxDashTopics) :
                data = ("topics" :> ts) @@ BaseReport
          \/ \E ts \in SeqUpTo(RfTopicInputs, MaxRfTopics) :
                data = ("topics" :> ts) @@ BaseReport

UpdateMainContent ==
    /\ call' = Called("update_main_content", update_main_content(data))
    /\ UNCHANGED <<dirExists, entries, data, runs, page, proc>>

UpdateCharts ==
    /\ call' = Called("update_charts", update_charts(data))
    /\ UNCHANGED <<dirExists, entries, data, runs, page, proc>>

CreateHealthDetailsTable ==
    /\ Truthy(data)
    /\ call' = Called("create_health_details_table", create_health_details_table(data))
    /\ UNCHANGED <<dirExists, entries, data, runs, page, proc>>

CreateReplicationFactorChart ==
    /\ Truthy(data)
    /\ call' = Called("create_replication_factor_chart",
                      Returned(create_replication_factor_chart(
                                   Get(data, "topics", <<>>))))
    /\ UNCHANGED <<dirExists, entries, data, runs, page, proc>>

NextDash ==
    \/ UpdateMainContent
    \/ UpdateCharts
    \/ CreateHealthDetailsTable
    \/ CreateReplicationFactorChart
    \/ ExtractHealthChecksDetails

SpecDash == InitDash /\ [][NextDash]_vars

(***************************************************************************)
(* Properties of the presentation (checked under SpecDash)                 *)
(***************************************************************************)
\* C12: for every report the loader returns, with any subset of the expected
\* keys absent (a topic's name included), update_charts and
\* update_main_content return their output and do not raise.
C12_CallbacksNeverRaise ==
    call.fn \in {"update_charts", "update_main_content"} => ~call.raised

\* the topics of the snapshot, [] when absent
SnapshotTopics == IF Truthy(data) /\ Has(data, "topics") THEN data.topics ELSE <<>>

\* C12, what the code does: update_charts raises KeyError exactly when some
\* topic that is not internal has no name; update_main_content never raises.
C12_RaisesOnNamelessUserTopic ==
    /\ call.fn = "update_main_content" => ~call.raised
    /\ call.fn = "update_charts" =>
          (call.raised <=>
              \E i \in DOMAIN SnapshotTopics :
                  /\ ~Has(SnapshotTopics[i], "name")
                  /\ ~(Has(SnapshotTopics[i], "isInternal")
                          /\ SnapshotTopics[i].isInternal))

\* C12 witness: update_charts raised on a report with one topic that has
\* partitions and no name
C12_Witness ==
    /\ call.fn = "update_charts"
    /\ call.raised
    /\ SnapshotTopics = <<[partitions |-> 2]>>

\* C14: every entry extract_health_checks_details returns has status PASSED
\* whatever status the source check carries (FAILED, WARNING, INFO or none),
\* and every row of the table create_health_details_table builds shows the
\* PASSED label, never FAILED, WARNING, INFO or UNKNOWN.
C14_AlwaysPassed ==
    /\ call.fn = "extract_health_checks_details" =>
          \A i \in DOMAIN call.ret : call.ret[i].status = "PASSED"
    /\ (call.fn = "create_health_details_table" /\ Checks # <<>>) =>
          /\ Len(call.ret.data) = Len(Checks)
          /\ \A i \in DOMAIN call.ret.data :
                /\ call.ret.data[i].status.text = "PASSED"
                /\ call.ret.data[i].status.text
                      \notin {"FAILED", "WARNING", "INFO", "UNKNOWN"}

\* C14 witness: the table was built from two checks, one FAILED and one
\* without status, and shows two rows
C14_Witness ==
    /\ call.fn = "create_health_details_table"
    /\ Len(Checks) = 2
    /\ Has(Checks[1], "status") /\ Checks[1].status = "FAILED"
    /\ ~Has(Checks[2], "status")
    /\ Len(call.ret.data) = 2

\* the replication factors of the snapshot's topics, 1 where absent
SnapshotRfs ==
    [i \in DOMAIN SnapshotTopics |->
        IF Has(SnapshotTopics[i], "replicationFactor")
        THEN SnapshotTopics[i].replicationFactor ELSE 1]

\* the first position of replication factor rf among the topics
FirstSeen(rf) ==
    CHOOSE i \in DOMAIN SnapshotRfs :
        SnapshotRfs[i] = rf /\ \A j \in 1..(i - 1) : SnapshotRfs[j] # rf

\* C15: the replication-factor histogram of a non-empty topics list has one
\* bar per distinct replication factor (a topic without the field counts as
\* 1), the bar's height is the number of topics with that factor, the bars
\* stand in first-seen order of a left-to-right scan and the heights sum to
\* the number of topics; factors [3,1,3,2] give 3:2, 1:1, 2:1 in this order.
C15_RfHistogram ==
    (call.fn = "create_replication_factor_chart" /\ SnapshotTopics # <<>>) =>
        LET x == call.ret.x
            y == call.ret.y
        IN  /\ Len(x) = Len(y)
            /\ {x[k].rf : k \in DOMAIN x} = Range(SnapshotRfs)
            /\ \A k, l \in DOMAIN x : k < l => FirstSeen(x[k].rf) < FirstSeen(x[l].rf)
            /\ \A k \in DOMAIN x :
                  y[k] = Cardinality({i \in DOMAIN SnapshotRfs :
                                         SnapshotRfs[i] = x[k].rf})
            /\ Sum(y) = Len(SnapshotTopics)
            /\ SnapshotRfs = <<3, 1, 3, 2>> =>
                  /\ x = <<[text |-> "RF=", rf |-> 3], [text |-> "RF=", rf |-> 1],
                           [text |-> "RF=", rf |-> 2]>>
                  /\ y = <<2, 1, 1>>

\* C15 witness: the histogram of topics with factors 3, 1, 3, 2 was built
C15_Witness ==
    /\ call.fn = "create_replication_factor_chart"
    /\ SnapshotRfs = <<3, 1, 3, 2>>
    /\ call.ret.y = <<2, 1, 1>>

\* C15 witness: a topic without replicationFactor was counted
C15_WitnessDefault ==
    /\ call.fn = "create_replication_factor_chart"
    /\ Len(SnapshotTopics) = 2
    /\ ~Has(SnapshotTopics[1], "replicationFactor")
    /\ Has(SnapshotTopics[2], "replicationFactor")
    /\ SnapshotTopics[2].replicationFactor = 1
    /\ call.ret.y = <<2>>

(***************************************************************************)
(* HistoricalDataProcessor: the trend tables. A DataFrame is the sequence  *)
(* of its rows; a timestamp string is [iso |-> t], and pd.to_datetime      *)
(* turns it into the point in time [at |-> t], None into NaT.              *)
(***************************************************************************)
MaxReports == 3      \* reports handed to HistoricalDataProcessor

NaT == [NaT |-> TRUE]

\* pd.to_datetime of one value of the timestamp column
ToDatetime(v) == IF v = NONE THEN NaT ELSE [at |-> v.iso]

\* report.get('timestamp', report.get('_metadata', {}).get('last_modified'))
ReportTimestamp(report) ==
    Get(report, "timestamp",
        Get(Get(report, "_metadata", <<>>), "last_modified", NONE))

\* the order of sort_values: ascending, NaT last
NotAfter(a, b) == b = NaT \/ (a # NaT /\ a.at <= b.at)

\* variant of SortValues: the rows stay in the order of the reports
SortValues_Unsorted(rows) == {rows}

\* df.sort_values('timestamp'): the rows in ascending order of timestamp; the
\* default sort is not stable, rows of equal timestamp come in any order
SortValues(rows) ==
    LET n == Len(rows)
    IN  {[i \in 1..n |-> rows[p[i]]] :
            p \in {q \in [1..n -> 1..n] :
                     /\ \A i, j \in 1..n : i # j => q[i] # q[j]
                     /\ \A i, j \in 1..n :
                           i < j => NotAfter(rows[q[i]].timestamp,
                                             rows[q[j]].timestamp)}}

\* the rows of get_health_score_trend after pd.to_datetime, before the sort
HealthScoreTrendRows(reports) ==
    [i \in DOMAIN reports |->
        LET health_checks == Get(reports[i], "healthChecks", <<>>)
        IN  [timestamp     |-> ToDatetime(ReportTimestamp(reports[i])),
             health_score  |-> get_health_score(reports[i]),
             total_checks  |-> Get(health_checks, "totalChecks", 0),
             passed_checks |-> Get(health_checks, "passedChecks", 0),
             failed_checks |-> Get(health_checks, "failedChecks", 0)]]

\* the rows of get_topics_trend after pd.to_datetime, before the sort
TopicsTrendRows(reports) ==
    [i \in DOMAIN reports |->
        LET summary == Get(reports[i], "summary", <<>>)
        IN  [timestamp        |-> ToDatetime(ReportTimestamp(reports[i])),
             total_topics     |-> Get(summary, "totalTopics", 0),
             user_topics      |-> Get(summary, "userTopics", 0),
             total_partitions |-> Get(summary, "totalPartitions", 0)]]

\* HistoricalDataProcessor.get_health_score_trend: the tables it can return
get_health_score_trend(reports) ==
    IF reports = <<>> THEN {<<>>} ELSE SortValues(HealthScoreTrendRows(reports))

\* HistoricalDataProcessor.get_topics_trend: the tables it can return
get_topics_trend(reports) ==
    IF reports = <<>> THEN {<<>>} ELSE SortValues(TopicsTrendRows(reports))

(***************************************************************************)
(* Specification of the trend tables over lists of loaded reports          *)
(***************************************************************************)
\* what the files of the trend reports hold besides the timestamp
TrendBodies ==
    {<<>>,
     [healthChecks |-> [totalChecks |-> 2, passedChecks |-> 1, failedChecks |-> 1],
      summary      |-> [totalTopics |-> 2, userTopics |-> 1, totalPartitions |-> 4]]}

\* loaded reports: a timestamp of 1 or 3 on a file modified at 3, or no
\* timestamp on a file modified at 2 or 3
TrendReportInputs ==
    {LoadFile(DirEntry([stem |-> "kafka-analysis-", tok |-> 1, ext |-> ".json"],
                       x.m, [kind |-> "object", body |-> x.t @@ x.b])).val :
        x \in {y \in [t : OptField("timestamp", {[iso |-> 1], [iso |-> 3]}),
                       m : {2, 3},
                       b : TrendBodies] : y.t = <<>> \/ y.m = 3}}

InitTrend ==
    /\ dirExists = TRUE
    /\ entries = <<>>
    /\ call = Idle
    /\ NoDashboard
    /\ NoLauncher
    /\ data \in SeqUpTo(TrendReportInputs, MaxReports)

GetHealthScoreTrend ==
    /\ \E df \in get_health_score_trend(data) :
          call' = Called("get_health_score_trend", Returned(df))
    /\ UNCHANGED <<dirExists, entries, data, runs, page, proc>>

GetTopicsTrend ==
    /\ \E df \in get_topics_trend(data) :
          call' = Called("get_topics_trend", Returned(df))
    /\ UNCHANGED <<dirExists, entries, data, runs, page, proc>>

NextTrend == GetHealthScoreTrend \/ GetTopicsTrend

SpecTrend == InitTrend /\ [][NextTrend]_vars

(***************************************************************************)
(* Properties of the trend tables (checked under SpecTrend)                *)
(***************************************************************************)
\* the time a report stands for in a trend: its timestamp field, or the
\* last_modified of its load metadata when the field is absent
TrendTime(report) ==
    IF Has(report, "timestamp") THEN report.timestamp.iso
    ELSE report._metadata.last_modified.iso

\* C17: get_health_score_trend and get_topics_trend return one row per input
\* report, in ascending order of timestamp whatever the order of the
\* reports; the timestamp of a report's row is the report's timestamp field
\* or, when absent, the last_modified of its load metadata.
C17_TrendsSorted ==
    call.fn \in {"get_health_score_trend", "get_topics_trend"} =>
        LET rows == call.ret
            n    == Len(data)
        IN  /\ Len(rows) = n
            /\ \A i, j \in 1..n : i < j => rows[i].timestamp.at <= rows[j].timestamp.at
            /\ \E p \in [1..n -> 1..n] :
                  /\ \A i, j \in 1..n : i # j => p[i] # p[j]
                  /\ \A i \in 1..n :
                        /\ rows[i].timestamp = [at |-> TrendTime(data[p[i]])]
                        /\ call.fn = "get_health_score_trend" =>
                              rows[i].total_checks =
                                 IF Has(data[p[i]], "healthChecks") THEN 2 ELSE 0
                        /\ call.fn = "get_topics_trend" =>
                              rows[i].total_topics =
                                 IF Has(data[p[i]], "summary") THEN 2 ELSE 0

\* C17 witness: three reports given in descending order of time, the middle
\* one without timestamp and placed by its last_modified, came out ascending
C17_Witness ==
    /\ call.fn = "get_health_score_trend"
    /\ Len(data) = 3
    /\ Has(data[1], "timestamp") /\ data[1].timestamp.iso = 3
    /\ ~Has(data[2], "timestamp") /\ data[2]._metadata.last_modified.iso = 2
    /\ Has(data[3], "timestamp") /\ data[3].timestamp.iso = 1
    /\ call.ret[1].timestamp.at = 1
    /\ call.ret[2].timestamp.at = 2
    /\ call.ret[3].timestamp.at = 3

(***************************************************************************)
(* The refresh cycle of the running dashboard (app.py).                    *)
(*                                                                         *)
(* The page holds the stores kafka-data and historical-data and the main   *)
(* content. A timer tick and a click on the refresh button each request    *)
(* update_data; its arguments n_intervals and n_clicks are not read and    *)
(* are left out, as is the wall-clock text of last-updated. The server     *)
(* started by run() hands every request to a handler of its own, and       *)
(* update_data takes no lock. The page applies the answer of the most      *)
(* recent request only: an answer to a request that a later request has    *)
(* superseded is dropped. The external analyzer changes the directory at   *)
(* any time.                                                               *)
(***************************************************************************)
MaxInFlight == 2     \* executions of update_data requested and not answered

Slots == 1..MaxInFlight

Free == [pc |-> "free"]

\* the local variable latest_data of update_data before it is assigned
UNSET == [unset |-> TRUE]

\* the states of the data directory the analyzer moves between: missing; one
\* report; that report and a newer one
RefreshDirectories ==
    LET a == DirEntry([stem |-> "kafka-analysis-", tok |-> 1, ext |-> ".json"], 1,
                      [kind |-> "object",
                       body |-> [timestamp |-> 1, vendor |-> "v"]])
        b == DirEntry([stem |-> "kafka-analysis-", tok |-> 2, ext |-> ".json"], 2,
                      [kind |-> "object",
                       body |-> [timestamp |-> 2,
                                 topics |-> <<[name |-> "orders", partitions |-> 2]>>]])
    IN  {[exists |-> FALSE, entries |-> <<>>],
         [exists |-> TRUE,  entries |-> <<a>>],
         [exists |-> TRUE,  entries |-> <<a, b>>]}

\* variant of StoreWrite: an absent result keeps the snapshot stored before
StoreWrite_KeepLast(old, new) == IF new = NONE THEN old ELSE new

\* Output('kafka-data', 'data'): the returned value becomes the store's data
StoreWrite(old, new) == new

\* a started execution of update_data that has loaded nothing yet
NewRun == [pc |-> "requested", superseded |-> FALSE, latest_data |-> UNSET]

\* the page before the answer to its first request: empty stores, an empty
\* main content
InitialPage ==
    [kafka_data      |-> NONE,
     historical_data |-> NONE,
     main_content    |-> NONE,
     mainPending     |-> FALSE,
     triggered       |-> "load"]

\* a request for update_data: it takes the first free slot and supersedes
\* the requests made before it
Request(trigger) ==
    /\ \E i \in Slots : runs[i] = Free
    /\ LET i == CHOOSE k \in Slots :
                    runs[k] = Free /\ \A j \in 1..(k - 1) : runs[j] # Free
       IN  runs' = [j \in Slots |->
                       IF j = i THEN NewRun
                       ELSE IF runs[j] = Free THEN Free
                       ELSE [runs[j] EXCEPT !.superseded = TRUE]]
    /\ page' = [page EXCEPT !.triggered = trigger]
    /\ UNCHANGED <<dirExists, entries, data, call, proc>>

\* the page has just been opened: its first request for update_data is made
InitRefresh ==
    /\ \E d \in RefreshDirectories : dirExists = d.exists /\ entries = d.entries
    /\ data = NONE
    /\ call = Idle
    /\ runs = [j \in Slots |-> IF j = 1 THEN NewRun ELSE Free]
    /\ page = InitialPage
    /\ NoLauncher

\* Input('interval-component', 'n_intervals'): dcc.Interval fires
TimerTick == Request("interval")

\* Input('refresh-button', 'n_clicks'): the refresh button is clicked
RefreshClick == Request("click")

\* the server starts a handler for the request; nothing makes it wait for
\* another execution of update_data to end
StartUpdateData(i) ==
    /\ runs[i].pc = "requested"
    /\ runs' = [runs EXCEPT ![i].pc = "get_latest_report"]
    /\ UNCHANGED <<dirExists, entries, data, call, page, proc>>

\* variant of LoadLatest: latest_data is kept on the dashboard object, one
\* variable for all executions
LoadLatest_Shared(i) ==
    /\ runs[i].pc = "get_latest_report"
    /\ runs' = [j \in Slots |->
                   IF j = i
                   THEN [runs[j] EXCEPT
                           !.pc = "get_all_reports",
                           !.latest_data = get_latest_report(dirExists, entries).ret]
                   ELSE IF runs[j].pc = "get_all_reports"
                   THEN [runs[j] EXCEPT
                           !.latest_data = get_latest_report(dirExists, entries).ret]
                   ELSE runs[j]]
    /\ UNCHANGED <<dirExists, entries, data, call, page, proc>>

\* latest_data = self.data_loader.get_latest_report()
LoadLatest(i) ==
    /\ runs[i].pc = "get_latest_report"
    /\ runs' = [runs EXCEPT ![i].pc = "get_all_reports",
                            ![i].latest_data =
                                get_latest_report(dirExists, entries).ret]
    /\ UNCHANGED <<dirExists, entries, data, call, page, proc>>

\* all_reports = self.data_loader.get_all_reports(), then
\* return latest_data, all_reports, current_time: the answer reaches the
\* page, which writes both stores unless the request was superseded
LoadAllAndReturn(i) ==
    /\ runs[i].pc = "get_all_reports"
    /\ runs' = [runs EXCEPT ![i] = Free]
    /\ page' = IF runs[i].superseded THEN page
               ELSE [page EXCEPT
                       !.kafka_data      = StoreWrite(@, runs[i].latest_data),
                       !.historical_data = get_all_reports(dirExists, entries).ret,
                       !.mainPending     = TRUE]
    /\ UNCHANGED <<dirExists, entries, data, call, proc>>

\* Input('kafka-data', 'data') of update_main_content: the written store
\* fires the callback, whose value becomes the main content
RenderMainContent ==
    /\ page.mainPending
    /\ LET out == update_main_content(page.kafka_data)
       IN  page' = [page EXCEPT
                      !.main_content = IF out.raised THEN @ ELSE out.val,
                      !.mainPending  = FALSE]
    /\ UNCHANGED <<dirExists, entries, data, call, runs, proc>>

\* the analyzer adds, replaces or removes report files
AnalyzerRuns ==
    /\ \E d \in RefreshDirectories :
          /\ d.exists # dirExists \/ d.entries # entries
          /\ dirExists' = d.exists
          /\ entries' = d.entries
    /\ UNCHANGED <<data, call, runs, page, proc>>

NextRefresh ==
    \/ TimerTick
    \/ RefreshClick
    \/ \E i \in Slots : StartUpdateData(i)
    \/ \E i \in Slots : LoadLatest(i)
    \/ \E i \in Slots : LoadAllAndReturn(i)
    \/ RenderMainContent
    \/ AnalyzerRuns

SpecRefresh == InitRefresh /\ [][NextRefresh]_vars

(***************************************************************************)
(* Properties of the refresh cycle (checked under SpecRefresh)             *)
(***************************************************************************)
\* slot i returns its answer in this step, and the page applies it
Applies(i) ==
    /\ runs[i].pc = "get_all_reports"
    /\ runs'[i] = Free
    /\ ~runs[i].superseded

C19_WitnessTick ==
    /\ page.triggered = "interval"
    /\ \A i \in Slots : runs[i] = Free
    /\ ~page.mainPending
    /\ page.kafka_data = NONE
    /\ page.main_content = create_no_data_message

\* the executions of update_data that have started and not finished loading
Loading == {i \in Slots : runs[i].pc \in {"get_latest_report", "get_all_reports"}}

SnapshotContents ==
    FileContents
    \cup {[kind |-> "object", body |-> [topics |-> <<[partitions |-> 2]>>]]}

\* dcc.Store(id='kafka-data'), dcc.Store(id='historical-data'): no data yet
EmptyStores == [kafka_data |-> NONE, historical_data |-> NONE]

\* a directory of at most two files, the page just opened
InitSnapshot ==
    /\ dirExists \in BOOLEAN
    /\ \E ns \in Listings :
       \E ms \in [1..Len(ns) -> 1..MaxMtime] :
       \E cs \in [1..Len(ns) -> SnapshotContents] :
          /\ Len(ns) <= 2
          /\ dirExists \/ ns = <<>>
          /\ \A i \in 1..Len(ns) :
                Matches(ns[i]) \/ (ms[i] = MaxMtime /\ cs[i] = OtherContent)
          /\ entries = [i \in 1..Len(ns) |-> DirEntry(ns[i], ms[i], cs[i])]
    /\ data = NONE
    /\ call = Idle
    /\ runs = <<>>
    /\ page = EmptyStores
    /\ NoLauncher

\* update_data: latest_data and all_reports are loaded and written to the
\* stores
UpdateDataStores ==
    /\ LET latest_data == get_latest_report(dirExists, entries).ret
           all_reports == get_all_reports(dirExists, entries).ret
       IN  /\ page' = [kafka_data      |-> StoreWrite(page.kafka_data, latest_data),
                       historical_data |-> StoreWrite(page.historical_data, all_reports)]
           /\ call' = Called("update_data", Returned(<<latest_data, all_reports>>))
    /\ UNCHANGED <<dirExists, entries, data, runs, proc>>

\* Input('kafka-data', 'data') of update_main_content
MainContentFromStore ==
    /\ call' = Called("update_main_content", update_main_content(page.kafka_data))
    /\ UNCHANGED <<dirExists, entries, data, runs, page, proc>>

\* Input('kafka-data', 'data') of update_charts
ChartsFromStore ==
    /\ call' = Called("update_charts", update_charts(page.kafka_data))
    /\ UNCHANGED <<dirExists, entries, data, runs, page, proc>>

NextSnapshot ==
    \/ UpdateDataStores
    \/ MainContentFromStore
    \/ ChartsFromStore

SpecSnapshot == InitSnapshot /\ [][NextSnapshot]_vars

(***************************************************************************)
(* Properties of the no-data state (checked under SpecSnapshot)            *)
(***************************************************************************)
\* what update_charts returns for an absent snapshot
EmptyCharts ==
    <<EmptyFigure, EmptyFigure, EmptyFigure, EmptyFigure, EmptyFigure, EmptyFigure,
      [text |-> "No data available"], [text |-> "No data available"]>>

\* C21: the stored snapshot is absent or the report the loader returns, and
\* it is absent whenever the directory is missing or holds no matching file;
\* update_main_content never raises, it returns the no-data panel exactly
\* when the stored snapshot is absent and the dashboard content whenever the
\* snapshot is a report; for an absent snapshot update_charts returns the
\* empty figures and raises nothing.
C21_NoDataPanel ==
    /\ page.kafka_data \in {NONE, get_latest_report(dirExists, entries).ret}
    /\ (~dirExists \/ Glob(entries) = <<>>) => page.kafka_data = NONE
    /\ call.fn = "update_main_content" =>
          /\ ~call.raised
          /\ (call.ret = create_no_data_message) <=> (page.kafka_data = NONE)
          /\ page.kafka_data # NONE => call.ret.panel = "dashboard"
    /\ (call.fn = "update_charts" /\ page.kafka_data = NONE) =>
          /\ ~call.raised
          /\ call.ret = EmptyCharts

\* C21 witness: the directory exists and holds a file, none that matches the
\* pattern; after update_data the main content is the no-data panel
C21_Witness ==
    /\ dirExists
    /\ entries # <<>>
    /\ Glob(entries) = <<>>
    /\ page.historical_data = <<>>
    /\ call.fn = "update_main_content"
    /\ call.ret = create_no_data_message

\* C21 witness: the directory is missing; after update_data update_charts
\* returns the empty figures
C21_WitnessMissingDir ==
    /\ ~dirExists
    /\ page.historical_data = <<>>
    /\ call.fn = "update_charts"
    /\ ~call.raised

\* C21 witness: the loader returned a report, the dashboard content is shown
C21_WitnessReport ==
    /\ page.kafka_data # NONE
    /\ call.fn = "update_main_content"
    /\ call.ret.panel = "dashboard"

(***************************************************************************)
(* run_dashboard.py: the launcher of the dashboard. proc follows main from *)
(* the parsed arguments to the end of the process. The environment decides *)
(* what pip returns, which packages import, where the data directory is    *)
(* found and how the import, the construction and the server end. The data *)
(* directory is missing or a directory.                                    *)
(***************************************************************************)
required_packages == {"dash", "plotly", "pandas", "numpy", "dash_bootstrap_components"}

\* a path given on the command line or found on disk
Path(p) == [path |-> p]

\* the exit status of a process that has not ended
Running == [running |-> TRUE]

\* the exit status of a process that has ended: sys.exit(n), or 0 at the end
\* of main
Exited(n) == [code |-> n]

\* install_dependencies: check_call raises CalledProcessError when pip
\* returns a nonzero code
install_dependencies(pip_returncode) == pip_returncode = 0

\* check_dependencies: the packages whose import raises ImportError
missing_packages(importable) == required_packages \ importable

\* check_dependencies
check_dependencies(importable) == missing_packages(importable) = {}

\* check_analysis_files: len(json_files) > 0 for the names that start with
\* 'kafka-analysis-' and end with '.json'
check_analysis_files(exists, es) ==
    IF ~exists THEN FALSE
    ELSE Len(SelectSeq(es, LAMBDA e : e.name.stem = "kafka-analysis-"
                                      /\ e.name.ext = ".json")) > 0

\* the parsed arguments of run_dashboard.py that main branches on
LauncherArgs ==
    [install : BOOLEAN, data_dir : {NONE, Path("./reports")}, debug : BOOLEAN]

\* main has parsed its arguments and changed to the dashboard directory
LauncherStart(args) ==
    [prog        |-> "run_dashboard",
     pc          |-> "install",
     args        |-> args,
     installed   |-> "not run",
     missing     |-> {},
     data_dir    |-> NONE,
     has_files   |-> FALSE,
     constructed |-> FALSE,
     raised      |-> "none",
     said        |-> "none",
     status      |-> Running]

InitLauncher ==
    /\ \E d \in RefreshDirectories : dirExists = d.exists /\ entries = d.entries
    /\ data = NONE
    /\ call = Idle
    /\ NoDashboard
    /\ \E args \in LauncherArgs : proc = LauncherStart(args)

\* sys.exit(1) after a message
ExitWithError(p, message) ==
    [p EXCEPT !.pc = "exited", !.said = message, !.status = Exited(1)]

\* variant of InstallDependencies: the result of install_dependencies is not
\* looked at
InstallDependencies_IgnoreResult ==
    /\ proc.pc = "install"
    /\ IF ~proc.args.install
       THEN proc' = [proc EXCEPT !.pc = "check"]
       ELSE \E pip_returncode \in {0, 1} :
               proc' = [proc EXCEPT
                          !.pc = "check",
                          !.installed = IF install_dependencies(pip_returncode)
                                        THEN "ok" ELSE "failed"]
    /\ UNCHANGED <<dirExists, entries, data, call, runs, page>>

\* "if args.install: if not install_dependencies(): sys.exit(1)"
InstallDependencies ==
    /\ proc.pc = "install"
    /\ IF ~proc.args.install
       THEN proc' = [proc EXCEPT !.pc = "check"]
       ELSE \E pip_returncode \in {0, 1} :
               IF install_dependencies(pip_returncode)
               THEN proc' = [proc EXCEPT !.pc = "check", !.installed = "ok"]
               ELSE proc' = ExitWithError([proc EXCEPT !.installed = "failed"],
                                          "Failed to install dependencies")
    /\ UNCHANGED <<dirExists, entries, data, call, runs, page>>

\* "if not check_dependencies(): ... sys.exit(1)"
CheckDependencies ==
    /\ proc.pc = "check"
    /\ \E importable \in SUBSET required_packages :
          IF check_dependencies(importable)
          THEN proc' = [proc EXCEPT !.pc = "scan"]
          ELSE proc' = ExitWithError(
                          [proc EXCEPT !.missing = missing_packages(importable)],
                          "Missing required packages")
    /\ UNCHANGED <<dirExists, entries, data, call, runs, page>>

\* the data directory is args.data_dir, else the one find_data_directory
\* finds, else the default; check_analysis_files looks for reports in it
ScanDataDirectory ==
    /\ proc.pc = "scan"
    /\ \E found \in {NONE, Path("kafka-analysis")} :
          /\ found # NONE => (proc.args.data_dir = NONE /\ dirExists)
          /\ proc' = [proc EXCEPT
                        !.pc = "import",
                        !.data_dir = IF proc.args.data_dir # NONE
                                     THEN proc.args.data_dir
                                     ELSE IF found # NONE THEN found
                                     ELSE Path(DataDir),
                        !.has_files = check_analysis_files(dirExists, entries)]
    /\ UNCHANGED <<dirExists, entries, data, call, runs, page>>

\* "except KeyboardInterrupt: print(...)" and "except Exception as e:
\* print(...); sys.exit(1)" around the import, the construction and the run
Except(p, raised) ==
    IF raised = "KeyboardInterrupt"
    THEN [p EXCEPT !.pc = "exited", !.raised = raised,
                   !.said = "Dashboard stopped by user", !.status = Exited(0)]
    ELSE ExitWithError([p EXCEPT !.raised = raised], "Error starting dashboard")

\* "from app import KafkaDashboard"
ImportApp ==
    /\ proc.pc = "import"
    /\ \E outcome \in {"returns", "Exception", "KeyboardInterrupt"} :
          proc' = IF outcome = "returns" THEN [proc EXCEPT !.pc = "construct"]
                  ELSE Except(proc, outcome)
    /\ UNCHANGED <<dirExists, entries, data, call, runs, page>>

\* "dashboard = KafkaDashboard(data_dir=data_dir)"
ConstructDashboard ==
    /\ proc.pc = "construct"
    /\ \E outcome \in {"returns", "Exception", "KeyboardInterrupt"} :
          proc' = IF outcome = "returns"
                  THEN [proc EXCEPT !.pc = "run", !.constructed = TRUE]
                  ELSE Except(proc, outcome)
    /\ UNCHANGED <<dirExists, entries, data, call, runs, page>>

\* "dashboard.run(debug=args.debug, port=args.port, host=args.host)" up to
\* the point where the server accepts requests
RunDashboard ==
    /\ proc.pc = "run"
    /\ \E outcome \in {"serves", "Exception", "KeyboardInterrupt"} :
          proc' = IF outcome = "serves" THEN [proc EXCEPT !.pc = "serving"]
                  ELSE Except(proc, outcome)
    /\ UNCHANGED <<dirExists, entries, data, call, runs, page>>

\* the blocking call run_server ends: it returns, which ends main, or it
\* raises
ServerEnds ==
    /\ proc.pc = "serving"
    /\ \E outcome \in {"returns", "Exception", "KeyboardInterrupt"} :
          proc' = IF outcome = "returns"
                  THEN [proc EXCEPT !.pc = "exited", !.status = Exited(0)]
                  ELSE Except(proc, outcome)
    /\ UNCHANGED <<dirExists, entries, data, call, runs, page>>

NextLauncher ==
    \/ InstallDependencies
    \/ CheckDependencies
    \/ ScanDataDirectory
    \/ ImportApp
    \/ ConstructDashboard
    \/ RunDashboard
    \/ ServerEnds

SpecLauncher == InitLauncher /\ [][NextLauncher]_vars

(***************************************************************************)
(* Properties of run_dashboard.main (checked under SpecLauncher)           *)
(***************************************************************************)
\* C22: once --install has failed or a required package is found missing,
\* the process has exited with code 1 and no dashboard was constructed; once
\* the import, the construction or the run has raised an exception the
\* process has exited with code 1; once a KeyboardInterrupt was raised there
\* the process has exited with a code other than 1; an exited process takes
\* no further step.
C22_LauncherExitCodes ==
    /\ []((proc.installed = "failed" \/ proc.missing # {}) =>
             /\ proc.status = Exited(1)
             /\ ~proc.constructed)
    /\ [](proc.raised = "Exception" => proc.status = Exited(1))
    /\ [](proc.raised = "KeyboardInterrupt" =>
             /\ proc.status # Running
             /\ proc.status # Exited(1))
    /\ [][proc.status # Running => proc' = proc]_vars

\* C22 witness: the dashboard was constructed and served, the server raised
\* an exception and the process exited with code 1
C22_Witness ==
    /\ proc.constructed
    /\ proc.raised = "Exception"
    /\ proc.said = "Error starting dashboard"
    /\ proc.status = Exited(1)

\* C22 witness: --install was given and pip failed
C22_WitnessInstallFailed ==
    /\ proc.args.install
    /\ proc.installed = "failed"
    /\ proc.status = Exited(1)

\* C22 witness: the installation succeeded and a package is still missing
C22_WitnessMissingPackage ==
    /\ proc.installed = "ok"
    /\ "dash" \in proc.missing
    /\ proc.status = Exited(1)

\* C22 witness: the dashboard was stopped from the keyboard
C22_WitnessInterrupted ==
    /\ proc.constructed
    /\ proc.raised = "KeyboardInterrupt"
    /\ proc.status = Exited(0)

(***************************************************************************)
(* Report objects. Here data is the heap of the report objects the loader  *)
(* has created, an object's identity being its index: json.load makes a    *)
(* new dict on every call and KafkaDataLoader keeps no reference to it.    *)
(* A function called on a report gets a reference to the object, so what   *)
(* it assigns through the reference shows in the heap.                     *)
(***************************************************************************)
MaxObjects == 3      \* report objects created by the loader

\* the states of the data directory the analyzer moves between: missing; one
\* report; that report replaced and a second one
FrameDirectories ==
    LET n1 == [stem |-> "kafka-analysis-", tok |-> 1, ext |-> ".json"]
        n2 == [stem |-> "kafka-analysis-", tok |-> 2, ext |-> ".json"]
        a  == DirEntry(n1, 1, [kind |-> "object", body |-> [vendor |-> "v"]])
        b  == DirEntry(n1, 2,
                 [kind |-> "object",
                  body |-> [healthChecks |-> [totalChecks |-> 2, passedChecks |-> 1,
                                              checks |-> <<[status |-> "FAILED"]>>],
                            topics |-> <<[name |-> "orders", partitions |-> 2]>>]])
        c  == DirEntry(n2, 2, [kind |-> "corrupt", body |-> <<>>])
    IN  {[exists |-> FALSE, entries |-> <<>>],
         [exists |-> TRUE,  entries |-> <<a>>],
         [exists |-> TRUE,  entries |-> <<b, c>>]}

\* the functions that are handed a report or a part of one
ReportFunctions ==
    Accessors
    \cup {"create_health_checks_summary", "create_partitions_per_topic",
          "create_consumer_groups_chart", "create_replication_factor_chart",
          "update_main_content", "update_charts"}

\* the functions that are handed the list of all loaded reports
TrendFunctions == {"get_health_score_trend", "get_topics_trend"}

\* variant of ArgumentWrites: get_topics_summary stores its default, the
\* empty list, under 'topics' in the report
ArgumentWrites_StoresDefault(fn) == IF fn = "get_topics_summary" THEN {"topics"} ELSE {}

\* the keys of its argument whose value the function fn assigns, deletes or
\* changes in place. The statements of these functions that assign or append
\* have as their target a dict, list or DataFrame the function itself
\* created (detailed_checks, trend_data, df, rf_counts, table_data); the
\* report is only read, with .get, subscripts, comprehensions and sorted().
ArgumentWrites(fn) == {}

\* the report object d after fn has run on it: a key fn writes holds the
\* empty default ([] or {}) fn stores there
AfterCall(fn, d) ==
    [k \in DOMAIN d \cup ArgumentWrites(fn) |->
        IF k \in ArgumentWrites(fn) THEN <<>> ELSE d[k]]

\* what fn returns on the report d
ReportCall(fn, d) ==
    CASE fn = "get_health_score" -> get_health_score_call(d)
      [] fn = "get_topics_summary" -> get_topics_summary_call(d)
      [] fn = "get_broker_info" -> get_broker_info_call(d)
      [] fn = "get_consumer_groups_summary" -> get_consumer_groups_summary_call(d)
      [] fn = "extract_health_checks_details" -> extract_health_checks_details_call(d)
      [] fn = "create_health_checks_summary" ->
            Returned(create_health_checks_summary(Get(d, "healthChecks", <<>>)))
      [] fn = "create_partitions_per_topic" ->
            create_partitions_per_topic(Get(d, "topics", <<>>))
      [] fn = "create_consumer_groups_chart" ->
            Returned(create_consumer_groups_chart(Get(d, "consumerGroups", <<>>)))
      [] fn = "create_replication_factor_chart" ->
            Returned(create_replication_factor_chart(Get(d, "topics", <<>>)))
      [] fn = "update_main_content" -> update_main_content(d)
      [] fn = "update_charts" -> update_charts(d)

\* a call record with the objects passed (args) and the objects created (new)
CalledOn(fn, args, new, out) == Called(fn, out) @@ [args |-> args, new |-> new]

InitFrame ==
    /\ \E d \in FrameDirectories : dirExists = d.exists /\ entries = d.entries
    /\ data = <<>>
    /\ call = CalledOn("idle", <<>>, <<>>, Returned(NONE))
    /\ NoDashboard
    /\ NoLauncher

\* get_latest_report: the dict json.load returns is a new object, into which
\* '_metadata' is stored before it is returned
LoadLatestObject ==
    /\ LET latest_data == get_latest_report(dirExists, entries).ret
       IN  IF latest_data = NONE
           THEN /\ data' = data
                /\ call' = CalledOn("get_latest_report", <<>>, <<>>, Returned(NONE))
           ELSE /\ Len(data) < MaxObjects
                /\ data' = Append(data, latest_data)
                /\ call' = CalledOn("get_latest_report", <<>>, <<Len(data) + 1>>,
                                    Returned(latest_data))
    /\ UNCHANGED <<dirExists, entries, runs, page, proc>>

\* get_all_reports: a new object for every file that parses, in a new list
LoadAllObjects ==
    /\ LET all_reports == get_all_reports(dirExists, entries).ret
       IN  /\ Len(data) + Len(all_reports) <= MaxObjects
           /\ data' = data \o all_reports
           /\ call' = CalledOn("get_all_reports", <<>>,
                               [i \in DOMAIN all_reports |-> Len(data) + i],
                               Returned(all_reports))
    /\ UNCHANGED <<dirExists, entries, runs, page, proc>>

\* an accessor, a chart builder or a callback is called on a loaded report
CallOnReport ==
    /\ \E fn \in ReportFunctions :
       \E i \in DOMAIN data :
          /\ data' = [data EXCEPT ![i] = AfterCall(fn, data[i])]
          /\ call' = CalledOn(fn, <<i>>, <<>>, ReportCall(fn, data[i]))
    /\ UNCHANGED <<dirExists, entries, runs, page, proc>>

\* HistoricalDataProcessor(reports) on the loaded reports, and one of its
\* trend functions
CallOnReports ==
    /\ \E fn \in TrendFunctions :
       \E df \in IF fn = "get_health_score_trend"
                 THEN get_health_score_trend(data) ELSE get_topics_trend(data) :
          /\ data' = [i \in DOMAIN data |-> AfterCall(fn, data[i])]
          /\ call' = CalledOn(fn, [i \in DOMAIN data |-> i], <<>>, Returned(df))
    /\ UNCHANGED <<dirExists, entries, runs, page, proc>>

\* the analyzer adds, replaces or removes report files
AnalyzerWrites ==
    /\ \E d \in FrameDirectories :
          /\ d.exists # dirExists \/ d.entries # entries
          /\ dirExists' = d.exists
          /\ entries' = d.entries
    /\ UNCHANGED <<data, call, runs, page, proc>>

NextFrame ==
    \/ LoadLatestObject
    \/ LoadAllObjects
    \/ CallOnReport
    \/ CallOnReports
    \/ AnalyzerWrites

SpecFrame == InitFrame /\ [][NextFrame]_vars

(***************************************************************************)
(* Frame properties (checked under SpecFrame)                              *)
(***************************************************************************)
\* C23: no step changes a report object that exists: the accessors, the
\* chart builders, the callbacks and the trend functions leave the objects
\* passed to them as they were; a load that returns a report returns an
\* object that did not exist before and leaves every earlier object as it
\* was.
C23_ReportsNeverMutated ==
    [][/\ \A i \in DOMAIN data : i \in DOMAIN data' /\ data'[i] = data[i]
       /\ (call' # call /\ call'.fn \in {"get_latest_report", "get_all_reports"}) =>
             /\ \A k \in DOMAIN call'.new :
                   call'.new[k] \notin DOMAIN data /\ call'.new[k] \in DOMAIN data'
             /\ Len(call'.new) = Len(data') - Len(data)
       /\ (call' # call /\ call'.fn \in ReportFunctions \cup TrendFunctions) =>
             DOMAIN data' = DOMAIN data]_vars

\* C23 witness: a second load, after the analyzer replaced the report, has
\* returned a second object; the first one is still the report loaded first
C23_Witness ==
    /\ Len(data) = 2
    /\ call.fn = "get_latest_report"
    /\ call.new = <<2>>
    /\ data[2] # data[1]
    /\ Has(data[1], "vendor")

\* C23 witness: get_topics_summary was called on a report without topics
C23_WitnessAccessor ==
    /\ call.fn = "get_topics_summary"
    /\ call.args = <<1>>
    /\ ~Has(data[1], "topics")

\* C23 witness: a trend function was called on two loaded reports
C23_WitnessTrend ==
    /\ call.fn = "get_health_score_trend"
    /\ call.args = <<1, 2>>
    /\ Len(call.ret) = 2

(***************************************************************************)
(* The health score gauge over the scores it can be handed. Here data is   *)
(* the score, a fraction in lowest terms.                                  *)
(***************************************************************************)
MaxScore == 104      \* the greatest score handed to the gauge
ScoreSteps == 2      \* the scores handed are the multiples of 1 / ScoreSteps

\* the colours of the bar, as the comments of the code name them
Green == "#28a745"
Amber == "#ffc107"
Red   == "#dc3545"

InitGauge ==
    /\ dirExists = TRUE
    /\ entries = <<>>
    /\ call = Idle
    /\ NoDashboard
    /\ NoLauncher
    /\ \E k \in 0..(MaxScore * ScoreSteps) : data = Rat(k, ScoreSteps)

CreateHealthScoreGauge ==
    /\ call' = Called("create_health_score_gauge",
                      Returned(create_health_score_gauge(data)))
    /\ UNCHANGED <<dirExists, entries, data, runs, page, proc>>

NextGauge == CreateHealthScoreGauge

SpecGauge == InitGauge /\ [][NextGauge]_vars

(***************************************************************************)
(* Properties of the gauge (checked under SpecGauge)                       *)
(***************************************************************************)
\* the score data is at least n
ScoreAtLeast(n) == data.num >= n * data.den

\* C24: the bar of the gauge is green when the score is at least 90, amber
\* when it is at least 70 and below 90, red otherwise; the bar has exactly
\* one of the three colours, and the gauge shows the score it was given.
C24_GaugeColours ==
    call.fn = "create_health_score_gauge" =>
        /\ call.ret.value = data
        /\ call.ret.color \in {Green, Amber, Red}
        /\ (call.ret.color = Green) <=> ScoreAtLeast(90)
        /\ (call.ret.color = Amber) <=> (ScoreAtLeast(70) /\ ~ScoreAtLeast(90))
        /\ (call.ret.color = Red) <=> ~ScoreAtLeast(70)

\* C24 witness: the score 90 is drawn green
C24_Witness ==
    /\ data = [num |-> 90, den |-> 1]
    /\ call.fn = "create_health_score_gauge"
    /\ call.ret.color = Green

\* C24 witness: the score 70 is drawn amber
C24_WitnessAmber ==
    /\ data = [num |-> 70, den |-> 1]
    /\ call.fn = "create_health_score_gauge"
    /\ call.ret.color = Amber

\* C24 witness: a score just below 70 is drawn red
C24_WitnessRed ==
    /\ data.den > 1
    /\ data.num * 1 > 69 * data.den
    /\ call.fn = "create_health_score_gauge"
    /\ call.ret.color = Red

(***************************************************************************)
(* One refresh at a time over a directory the analyzer rewrites: the two   *)
(* scans of update_data, get_latest_report and then get_all_reports, with  *)
(* the analyzer free to act before, between and after them. Here runs is   *)
(* the one execution of update_data and page holds the two stores.         *)
(***************************************************************************)
\* the states of the data directory the analyzer moves between: missing;
\* empty; one report; an older and a newer report; two reports of the same
\* modification time; a report and a newer file that does not parse
StoreDirectories ==
    LET n1 == [stem |-> "kafka-analysis-", tok |-> 1, ext |-> ".json"]
        n2 == [stem |-> "kafka-analysis-", tok |-> 2, ext |-> ".json"]
        a  == DirEntry(n1, 1, [kind |-> "object", body |-> [vendor |-> "v"]])
        b  == DirEntry(n2, 2, [kind |-> "object", body |-> [timestamp |-> 2]])
        t  == DirEntry(n2, 1, [kind |-> "object", body |-> [timestamp |-> 2]])
        c  == DirEntry(n2, 2, [kind |-> "corrupt", body |-> <<>>])
    IN  {[exists |-> FALSE, entries |-> <<>>],
         [exists |-> TRUE,  entries |-> <<>>],
         [exists |-> TRUE,  entries |-> <<a>>],
         [exists |-> TRUE,  entries |-> <<a, b>>],
         [exists |-> TRUE,  entries |-> <<a, t>>],
         [exists |-> TRUE,  entries |-> <<a, c>>]}

\* no execution of update_data is running; answered tells whether one has
\* returned
NoRun(answered) == [pc |-> "idle", latest_data |-> UNSET, answered |-> answered]

InitStores ==
    /\ \E d \in StoreDirectories : dirExists = d.exists /\ entries = d.entries
    /\ data = NONE
    /\ call = Idle
    /\ runs = NoRun(FALSE)
    /\ page = EmptyStores
    /\ NoLauncher

\* a trigger starts update_data:
\* latest_data = self.data_loader.get_latest_report()
ScanLatest ==
    /\ runs.pc = "idle"
    /\ runs' = [runs EXCEPT !.pc = "get_all_reports",
                            !.latest_data = get_latest_report(dirExists, entries).ret]
    /\ UNCHANGED <<dirExists, entries, data, call, page, proc>>

\* all_reports = self.data_loader.get_all_reports(), then
\* return latest_data, all_reports, current_time: both stores are written
ScanAllAndReturn ==
    /\ runs.pc = "get_all_reports"
    /\ page' = [kafka_data      |-> StoreWrite(page.kafka_data, runs.latest_data),
                historical_data |-> StoreWrite(page.historical_data,
                                               get_all_reports(dirExists, entries).ret)]
    /\ runs' = NoRun(TRUE)
    /\ UNCHANGED <<dirExists, entries, data, call, proc>>

\* the analyzer adds, replaces or removes report files
AnalyzerRewrites ==
    /\ \E d \in StoreDirectories :
          /\ d.exists # dirExists \/ d.entries # entries
          /\ dirExists' = d.exists
          /\ entries' = d.entries
    /\ UNCHANGED <<data, call, runs, page, proc>>

NextStores ==
    \/ ScanLatest
    \/ ScanAllAndReturn
    \/ AnalyzerRewrites

SpecStores == InitStores /\ [][NextStores]_vars

(***************************************************************************)
(* Properties of the two stores (checked under SpecStores)                 *)
(***************************************************************************)
\* the snapshot is the last entry of the history, and absent when the
\* history is empty
Consistent(kafka_data, historical_data) ==
    IF historical_data = <<>> THEN kafka_data = NONE
    ELSE kafka_data = historical_data[Len(historical_data)]

\* C26 as claimed: after every refresh the kafka-data snapshot is the newest
\* entry of historical-data, and is absent only when historical-data is
\* empty, also when the analyzer changes the files between the two scans.
C26_Original ==
    runs.answered => Consistent(page.kafka_data, page.historical_data)

\* C26 amended: a refresh writes both stores in one step, kafka-data from
\* the scan of get_latest_report and historical-data from the later scan of
\* get_all_reports. The snapshot is the last entry of the history (absent
\* when the history is empty) when the later scan finds the directory with
\* the latest report that was loaded, every matching file parsing and no
\* two files sharing the greatest modification time.
C26_StoresFromTwoScans ==
    [][(runs.pc = "get_all_reports" /\ runs'.pc = "idle") =>
          /\ page'.kafka_data = runs.latest_data
          /\ page'.historical_data = get_all_reports(dirExists, entries).ret
          /\ (/\ runs.latest_data = get_latest_report(dirExists, entries).ret
              /\ ParsableIdx = MatchingIdx
              /\ Cardinality(NewestIdx) <= 1)
             => Consistent(page'.kafka_data, page'.historical_data)]_vars

\* C26 witness: the analyzer added a newer report between the two scans; the
\* snapshot is the older report, the history ends with the newer one
C26_Witness ==
    /\ runs.answered
    /\ runs.pc = "idle"
    /\ page.kafka_data # NONE
    /\ Has(page.kafka_data, "vendor")
    /\ Len(page.historical_data) = 2
    /\ Has(page.historical_data[2], "timestamp")
    /\ page.historical_data[2]._metadata.last_modified = IsoFormat(2)

\* C26 witness: the directory was the same at both scans, the snapshot is the
\* last of two entries of the history
C26_WitnessConsistent ==
    /\ runs.answered
    /\ runs.pc = "idle"
    /\ Len(page.historical_data) = 2
    /\ page.kafka_data = page.historical_data[2]

(***************************************************************************)
(* The loader on a directory that changes while it runs. get_latest_report *)
(* and get_all_reports are followed system call by system call: the test   *)
(* of the directory, the glob, the modification-time lookups of max() or   *)
(* sorted(), the read of a file and the modification-time lookup for its   *)
(* metadata. Between any two of them a file can be deleted or truncated    *)
(* and the directory removed. Here runs is the call in progress with its   *)
(* local variables, and call the outcome of the call that ended last.      *)
(***************************************************************************)
\* the directories a call starts on: missing; one report; an older and a
\* newer report; a report and a newer file whose JSON root is not an object
RaceDirectories ==
    LET n1 == [stem |-> "kafka-analysis-", tok |-> 1, ext |-> ".json"]
        n2 == [stem |-> "kafka-analysis-", tok |-> 2, ext |-> ".json"]
        x  == DirEntry(n1, 1, [kind |-> "object", body |-> [vendor |-> "v"]])
        y  == DirEntry(n2, 2, [kind |-> "object", body |-> [timestamp |-> 2]])
        z  == DirEntry(n2, 2, [kind |-> "nondict", body |-> <<>>])
    IN  {[exists |-> FALSE, entries |-> <<>>],
         [exists |-> TRUE,  entries |-> <<x>>],
         [exists |-> TRUE,  entries |-> <<x, y>>],
         [exists |-> TRUE,  entries |-> <<x, z>>]}

\* no call is in progress
NoCall ==
    [fn |-> "none", pc |-> "none", json_files |-> <<>>, content |-> NONE,
     reports |-> <<>>, log |-> <<>>]

\* a call of fn has been entered
Entered(fn) == [NoCall EXCEPT !.fn = fn, !.pc = "exists"]

\* the file called name is in the directory
OnDisk(es, name) == \E i \in DOMAIN es : es[i].name = name

\* the entry of the file called name
EntryOf(es, name) == es[CHOOSE i \in DOMAIN es : es[i].name = name]

\* os.path.getmtime over the listed files, as max() and sorted() call it:
\* the entries as they are now, or FileNotFoundError when one is gone
GetMtimes(es, json_files) ==
    IF \E i \in DOMAIN json_files : ~OnDisk(es, json_files[i])
    THEN Raised("FileNotFoundError")
    ELSE Returned([i \in DOMAIN json_files |-> EntryOf(es, json_files[i])])

\* open(file_path, 'r') and json.load(f)
ReadJson(es, name) ==
    IF ~OnDisk(es, name) THEN Raised("FileNotFoundError")
    ELSE LET e == EntryOf(es, name)
         IN  IF e.kind = "corrupt" THEN Raised("JSONDecodeError")
             ELSE Returned([kind |-> e.kind, body |-> e.body])

\* data['_metadata'] = {..., 'last_modified': ...getmtime(file_path)...}: the
\* lookup comes first, then the assignment into what was read
StoreMetadata(es, name, content) ==
    IF ~OnDisk(es, name) THEN Raised("FileNotFoundError")
    ELSE LoadFile(DirEntry(name, EntryOf(es, name).mtime, content))

\* variant of Catches: except json.JSONDecodeError
Catches_DecodeErrorsOnly(exc) == exc = "JSONDecodeError"

\* except Exception: the exceptions the handlers of the loader catch
Catches(exc) == exc \in {"FileNotFoundError", "JSONDecodeError", "TypeError"}

\* the call ends by a return statement
Returns(r, value) ==
    [fn |-> r.fn, raised |-> FALSE, ret |-> value, log |-> r.log]

\* an exception reaches the handler of the whole function: it prints and
\* returns None or [], or the exception leaves the function
Fails(r, exc) ==
    IF Catches(exc)
    THEN [fn |-> r.fn, raised |-> FALSE,
          ret |-> IF r.fn = "get_latest_report" THEN NONE ELSE <<>>,
          log |-> Append(r.log,
                     [msg |-> IF r.fn = "get_latest_report"
                              THEN "Error loading report" ELSE "Error loading reports",
                      exc |-> exc])]
    ELSE [fn |-> r.fn, raised |-> TRUE, ret |-> NONE, log |-> r.log]

\* an exception reaches the handler inside the loop of get_all_reports: it
\* prints and continues with the next file, or the exception goes on to the
\* handler of the whole function
Skips(r, exc) ==
    IF Catches(exc)
    THEN [r EXCEPT !.pc = "read",
                   !.json_files = Tail(@),
                   !.content = NONE,
                   !.log = Append(@, [msg |-> "Error loading",
                                      file |-> FilePath(Head(r.json_files)),
                                      exc |-> exc])]
    ELSE r

InitRace ==
    /\ \E d \in RaceDirectories : dirExists = d.exists /\ entries = d.entries
    /\ data = NONE
    /\ call = Idle
    /\ runs = NoCall
    /\ page = NONE
    /\ NoLauncher

\* the dashboard calls one of the two functions
EnterCall ==
    /\ runs = NoCall
    /\ \E fn \in {"get_latest_report", "get_all_reports"} : runs' = Entered(fn)
    /\ UNCHANGED <<dirExists, entries, data, call, page, proc>>

\* "if not os.path.exists(self.data_dir): return None" (or "return []")
TestDirectory ==
    /\ runs.pc = "exists"
    /\ IF dirExists
       THEN runs' = [runs EXCEPT !.pc = "glob"] /\ call' = call
       ELSE /\ runs' = NoCall
            /\ call' = Returns(runs, IF runs.fn = "get_latest_report"
                                     THEN NONE ELSE <<>>)
    /\ UNCHANGED <<dirExists, entries, data, page, proc>>

\* json_files = glob.glob(pattern), and in get_latest_report
\* "if not json_files: return None"
GlobFiles ==
    /\ runs.pc = "glob"
    /\ LET json_files == [i \in DOMAIN Glob(entries) |-> Glob(entries)[i].name]
       IN  IF runs.fn = "get_latest_report" /\ json_files = <<>>
           THEN runs' = NoCall /\ call' = Returns(runs, NONE)
           ELSE /\ runs' = [runs EXCEPT !.pc = "getmtime", !.json_files = json_files]
                /\ call' = call
    /\ UNCHANGED <<dirExists, entries, data, page, proc>>

\* max(json_files, key=os.path.getmtime), of which the one file is kept, or
\* sorted(json_files, key=os.path.getmtime)
OrderByMtime ==
    /\ runs.pc = "getmtime"
    /\ LET files == GetMtimes(entries, runs.json_files)
       IN  IF files.raised
           THEN runs' = NoCall /\ call' = Fails(runs, files.exc)
           ELSE /\ call' = call
                /\ runs' = [runs EXCEPT
                              !.pc = "read",
                              !.json_files =
                                  IF runs.fn = "get_latest_report"
                                  THEN <<MaxByMtime(files.val).name>>
                                  ELSE [i \in DOMAIN files.val |->
                                           SortedByMtime(files.val)[i].name]]
    /\ UNCHANGED <<dirExists, entries, data, page, proc>>

\* "with open(file_path, 'r') as f: data = json.load(f)"
ReadFile ==
    /\ runs.pc = "read"
    /\ runs.json_files # <<>>
    /\ LET read == ReadJson(entries, Head(runs.json_files))
       IN  IF ~read.raised
           THEN runs' = [runs EXCEPT !.pc = "metadata", !.content = read.val]
                /\ call' = call
           ELSE IF runs.fn = "get_all_reports" /\ Catches(read.exc)
           THEN runs' = Skips(runs, read.exc) /\ call' = call
           ELSE runs' = NoCall /\ call' = Fails(runs, read.exc)
    /\ UNCHANGED <<dirExists, entries, data, page, proc>>

\* "data['_metadata'] = {...}", then "return data" or "reports.append(data)"
AttachMetadata ==
    /\ runs.pc = "metadata"
    /\ LET stored == StoreMetadata(entries, Head(runs.json_files), runs.content)
       IN  IF runs.fn = "get_latest_report"
           THEN /\ runs' = NoCall
                /\ call' = IF stored.raised THEN Fails(runs, stored.exc)
                           ELSE Returns(runs, stored.val)
           ELSE IF ~stored.raised
           THEN /\ runs' = [runs EXCEPT !.pc = "read",
                                        !.json_files = Tail(@),
                                        !.content = NONE,
                                        !.reports = Append(@, stored.val)]
                /\ call' = call
           ELSE IF Catches(stored.exc)
           THEN runs' = Skips(runs, stored.exc) /\ call' = call
           ELSE runs' = NoCall /\ call' = Fails(runs, stored.exc)
    /\ UNCHANGED <<dirExists, entries, data, page, proc>>

\* the loop of get_all_reports is over: "return reports"
ReturnReports ==
    /\ runs.pc = "read"
    /\ runs.json_files = <<>>
    /\ runs' = NoCall
    /\ call' = Returns(runs, runs.reports)
    /\ UNCHANGED <<dirExists, entries, data, page, proc>>

\* a report file is deleted
DeleteFile ==
    /\ \E i \in DOMAIN entries :
          entries' = SubSeq(entries, 1, i - 1) \o SubSeq(entries, i + 1, Len(entries))
    /\ UNCHANGED <<dirExists, data, call, runs, page, proc>>

\* a report file is truncated: it is empty and newly modified
TruncateFile ==
    /\ \E i \in DOMAIN entries :
          /\ entries[i].kind # "corrupt"
          /\ entries' = [entries EXCEPT
                           ![i] = DirEntry(entries[i].name, MaxMtime,
                                           [kind |-> "corrupt", body |-> <<>>])]
    /\ UNCHANGED <<dirExists, data, call, runs, page, proc>>

\* the data directory is removed with its files
RemoveDirectory ==
    /\ dirExists
    /\ dirExists' = FALSE
    /\ entries' = <<>>
    /\ UNCHANGED <<data, call, runs, page, proc>>

NextRace ==
    \/ EnterCall
    \/ TestDirectory
    \/ GlobFiles
    \/ OrderByMtime
    \/ ReadFile
    \/ AttachMetadata
    \/ ReturnReports
    \/ DeleteFile
    \/ TruncateFile
    \/ RemoveDirectory

SpecRace == InitRace /\ [][NextRace]_vars

(***************************************************************************)
(* Properties of the loader under races (checked under SpecRace)           *)
(***************************************************************************)
\* C27: whatever happens to the files while it runs, a call of
\* get_latest_report ends by returning absent or a report with its
\* metadata, and a call of get_all_reports ends by returning a list of
\* reports with their metadata; no exception leaves either function.
C27_LoaderNeverRaises ==
    /\ call.fn = "get_latest_report" =>
          /\ ~call.raised
          /\ call.ret = NONE \/ Has(call.ret, "_metadata")
    /\ call.fn = "get_all_reports" =>
          /\ ~call.raised
          /\ \A i \in 1..Len(call.ret) : Has(call.ret[i], "_metadata")

\* C27 witness: a file was deleted after the glob had listed it, one file is
\* left; get_latest_report met FileNotFoundError and returned absent
C27_Witness ==
    /\ call.fn = "get_latest_report"
    /\ dirExists
    /\ Len(entries) = 1
    /\ call.ret = NONE
    /\ call.log = <<[msg |-> "Error loading report", exc |-> "FileNotFoundError"]>>

\* C27 witness: get_all_reports skipped a file that was truncated before its
\* read and returned the other report
C27_WitnessTruncated ==
    /\ call.fn = "get_all_reports"
    /\ Len(call.ret) = 1
    /\ Len(call.log) = 1
    /\ call.log[1].msg = "Error loading"
    /\ call.log[1].exc = "JSONDecodeError"
    /\ \A i \in DOMAIN entries : entries[i].kind # "nondict"

\* C27 witness: a file was deleted before the modification-time lookups of
\* sorted(); get_all_reports returned the empty list
C27_WitnessSorted ==
    /\ call.fn = "get_all_reports"
    /\ call.ret = <<>>
    /\ call.log = <<[msg |-> "Error loading reports", exc |-> "FileNotFoundError"]>>

\* C27 witness: the root of the newest file is not an object;
\* get_latest_report returned absent
C27_WitnessNotAnObject ==
    /\ call.fn = "get_latest_report"
    /\ call.ret = NONE
    /\ call.log = <<[msg |-> "Error loading report", exc |-> "TypeError"]>>

(***************************************************************************)
(* start_monitoring.py: the analysis followed by the dashboard. proc       *)
(* follows main from the parsed arguments to the end of the process. The   *)
(* environment decides how the analyzer ends, what the user answers and    *)
(* how the dashboard process ends. A line typed by the user is the         *)
(* sequence of its characters.                                             *)
(***************************************************************************)
\* the parsed arguments of start_monitoring.py that main branches on
MonitoringArgs ==
    [config         : {NONE, Path("../kraft-config.json")},
     servers        : {NONE, [servers |-> "localhost:29092"]},
     dashboard_only : BOOLEAN,
     analyze_only   : BOOLEAN]

\* the lines the user can type at the prompt
Answers == {<<>>, <<"y">>, <<"Y", "e", "s">>, <<"n">>, <<"N", "o">>, <<"o", "y">>}

\* str.lower() on the letters of the answers
Lower(line) ==
    [i \in DOMAIN line |->
        CASE line[i] = "Y" -> "y"
          [] line[i] = "N" -> "n"
          [] OTHER -> line[i]]

\* str.startswith('y')
StartsWithY(line) == Len(line) >= 1 /\ line[1] = "y"

\* cmd of run_kafka_analysis
AnalyzerCommand(config_file, bootstrap_servers) ==
    <<"node", "bin/index.js">>
    \o (IF config_file # NONE THEN <<"--config", config_file>>
        ELSE IF bootstrap_servers # NONE
        THEN <<"--bootstrap-servers", bootstrap_servers>>
        ELSE <<>>)

\* main has parsed its arguments
MonitoringStart(args) ==
    [prog      |-> "start_monitoring",
     pc        |-> "arguments",
     args      |-> args,
     cmd       |-> <<>>,
     analysis  |-> "not run",
     answer    |-> NONE,
     dashboard |-> "not started",
     said      |-> "none",
     status    |-> Running]

InitMonitoring ==
    /\ \E d \in RefreshDirectories : dirExists = d.exists /\ entries = d.entries
    /\ data = NONE
    /\ call = Idle
    /\ NoDashboard
    /\ \E args \in MonitoringArgs : proc = MonitoringStart(args)

\* "if not args.dashboard_only: if not args.config and not args.servers:
\* ... sys.exit(1)"
CheckArguments ==
    /\ proc.prog = "start_monitoring"
    /\ proc.pc = "arguments"
    /\ proc' = IF proc.args.dashboard_only
               THEN [proc EXCEPT !.pc = "dashboard"]
               ELSE IF proc.args.config = NONE /\ proc.args.servers = NONE
               THEN ExitWithError(proc, "Must provide either --config or --servers")
               ELSE [proc EXCEPT !.pc = "analysis"]
    /\ UNCHANGED <<dirExists, entries, data, call, runs, page>>

\* run_kafka_analysis is called: it builds the command and runs the analyzer
RunKafkaAnalysis ==
    /\ proc.prog = "start_monitoring"
    /\ proc.pc = "analysis"
    /\ proc' = [proc EXCEPT
                  !.pc = "analyzing",
                  !.analysis = "running",
                  !.cmd = AnalyzerCommand(proc.args.config, proc.args.servers)]
    /\ UNCHANGED <<dirExists, entries, data, call, runs, page>>

\* subprocess.run returns with the analyzer's return code, or raises; an
\* exception is caught and run_kafka_analysis returns False
AnalysisReturns ==
    /\ proc.prog = "start_monitoring"
    /\ proc.pc = "analyzing"
    /\ \E outcome \in {"returncode 0", "returncode 1", "Exception"} :
          proc' = IF outcome = "returncode 0"
                  THEN [proc EXCEPT !.pc = "dashboard", !.analysis = "succeeded"]
                  ELSE [proc EXCEPT !.pc = "ask", !.analysis = "failed",
                                    !.said = "Analysis failed"]
    /\ UNCHANGED <<dirExists, entries, data, call, runs, page>>

\* variant of AskToContinue: the answer is read and not looked at
AskToContinue_AnyAnswer ==
    /\ proc.prog = "start_monitoring"
    /\ proc.pc = "ask"
    /\ \E line \in Answers :
          proc' = [proc EXCEPT !.answer = [line |-> line], !.pc = "dashboard"]
    /\ UNCHANGED <<dirExists, entries, data, call, runs, page>>

\* "if not input(...).lower().startswith('y'): sys.exit(1)"
AskToContinue ==
    /\ proc.prog = "start_monitoring"
    /\ proc.pc = "ask"
    /\ \E line \in Answers :
          proc' = IF StartsWithY(Lower(line))
                  THEN [proc EXCEPT !.answer = [line |-> line], !.pc = "dashboard"]
                  ELSE [proc EXCEPT !.answer = [line |-> line], !.pc = "exited",
                                    !.status = Exited(1)]
    /\ UNCHANGED <<dirExists, entries, data, call, runs, page>>

\* "if not args.analyze_only: ... start_dashboard(...)", else a message and
\* the end of main
StartDashboard ==
    /\ proc.prog = "start_monitoring"
    /\ proc.pc = "dashboard"
    /\ proc' = IF ~proc.args.analyze_only
               THEN [proc EXCEPT !.pc = "serving", !.dashboard = "started"]
               ELSE [proc EXCEPT !.pc = "exited", !.status = Exited(0),
                                 !.said = "Dashboard not started (--analyze-only flag)"]
    /\ UNCHANGED <<dirExists, entries, data, call, runs, page>>

\* subprocess.run of run_dashboard.py returns, or raises KeyboardInterrupt
\* or an exception, which start_dashboard catches; main ends
DashboardEnds ==
    /\ proc.prog = "start_monitoring"
    /\ proc.pc = "serving"
    /\ \E outcome \in {"returns", "Exception", "KeyboardInterrupt"} :
          proc' = [proc EXCEPT
                     !.pc = "exited",
                     !.dashboard = "ended",
                     !.status = Exited(0),
                     !.said = CASE outcome = "returns" -> proc.said
                                [] outcome = "Exception" -> "Error starting dashboard"
                                [] OTHER -> "Dashboard stopped by user"]
    /\ UNCHANGED <<dirExists, entries, data, call, runs, page>>

NextMonitoring ==
    \/ CheckArguments
    \/ RunKafkaAnalysis
    \/ AnalysisReturns
    \/ AskToContinue
    \/ StartDashboard
    \/ DashboardEnds

SpecMonitoring == InitMonitoring /\ [][NextMonitoring]_vars

(***************************************************************************)
(* Properties of start_monitoring.main (checked under SpecMonitoring)      *)
(***************************************************************************)
\* the user answered with a line that begins with y or Y
AnsweredYes ==
    /\ proc.answer # NONE
    /\ Len(proc.answer.line) >= 1
    /\ proc.answer.line[1] \in {"y", "Y"}

\* C28: with --dashboard-only no analysis ever runs; without it and with
\* neither --config nor --servers the process exits with code 1 at its first
\* step, no analysis run and no dashboard started; with --analyze-only the
\* dashboard is never started; and when the dashboard has been started
\* without --dashboard-only, run_kafka_analysis has returned, and it
\* succeeded or the user answered yes; the dashboard is started in one step
\* from a state in which no analysis is running.
C28_DashboardAfterAnalysis ==
    /\ [](proc.args.dashboard_only => proc.analysis = "not run")
    /\ []((/\ ~proc.args.dashboard_only
           /\ proc.args.config = NONE
           /\ proc.args.servers = NONE
           /\ proc.pc # "arguments")
          => /\ proc.status = Exited(1)
             /\ proc.analysis = "not run"
             /\ proc.dashboard = "not started")
    /\ [](proc.args.analyze_only => proc.dashboard = "not started")
    /\ []((proc.dashboard # "not started" /\ ~proc.args.dashboard_only) =>
             \/ proc.analysis = "succeeded"
             \/ proc.analysis = "failed" /\ AnsweredYes)
    /\ [][(proc.dashboard = "not started" /\ proc'.dashboard # "not started") =>
             /\ proc.analysis # "running"
             /\ proc'.analysis = proc.analysis]_vars

\* C28 witness: the analysis failed, the user answered Yes, the dashboard was
\* started
C28_Witness ==
    /\ proc.analysis = "failed"
    /\ proc.answer # NONE
    /\ proc.answer.line = <<"Y", "e", "s">>
    /\ proc.dashboard = "started"

\* C28 witness: neither --config nor --servers, exit code 1
C28_WitnessNoArguments ==
    /\ ~proc.args.dashboard_only
    /\ proc.args.config = NONE
    /\ proc.args.servers = NONE
    /\ proc.status = Exited(1)

\* C28 witness: --dashboard-only, the dashboard was started without analysis
C28_WitnessDashboardOnly ==
    /\ proc.args.dashboard_only
    /\ proc.dashboard = "started"
    /\ proc.analysis = "not run"

\* C28 witness: --analyze-only, the analysis succeeded and main ended
C28_WitnessAnalyzeOnly ==
    /\ proc.args.analyze_only
    /\ proc.analysis = "succeeded"
    /\ proc.status = Exited(0)

\* C28 witness: the analysis failed and the user declined
C28_WitnessDeclined ==
    /\ proc.analysis = "failed"
    /\ proc.answer # NONE
    /\ proc.answer.line = <<"o", "y">>
    /\ proc.status = Exited(1)
    /\ proc.dashboard = "not started"

====
